---- MODULE Spec2Model ----
(***************************************************************************)
(* A model of the fire-evacuation simulation: the FireEvacuation model     *)
(* (model.py), its random-activation schedule, and the Fire, Smoke and     *)
(* Human agents (agent.py).                                                *)
(*                                                                         *)
(* Units.  The real-valued quantities of the code are integers here:       *)
(*   health  in units of 0.005  (MAX_HEALTH = 200)                         *)
(*   speed   in units of 0.1    (MAX_SPEED  = 20)                          *)
(*   shock   in units of 0.05   (MAX_SHOCK  = 20)                          *)
(*   panic score components in units of 1e-6                               *)
(*   knowledge as the number of newly seen tiles (the code divides it by   *)
(*   width * height)                                                       *)
(* A cell is <<x, y>>; NoPos stands for Python's None position.            *)
(* An object is <<kind, x, y, n>>: floor objects carry their cell and n=0, *)
(* Fire and Smoke carry their cell and their ordinal on that cell, Human   *)
(* and DeadHuman carry the human's number in n (a Human's cell is its pos  *)
(* field, so its x, y are -1).                                             *)
(*                                                                         *)
(* Arithmetic.  The code computes with binary floating point; the model    *)
(* computes the same decimals exactly.  Where rounding leaves the code a   *)
(* health of some 1e-16 after five fire contacts from 1.0, the model has   *)
(* 0: a death may come one hazard contact earlier here than in the code    *)
(* (the Human is incapacitated in between).  Nothing below counts          *)
(* contacts.  np.random.randint(0.01, 1.0) of push_human_agent draws from  *)
(* the integers of [0, 1), so the push damage is 0.                        *)
(*                                                                         *)
(* Control.  A tick is TickBegin, the steps of the scheduled agents in any *)
(* order, TickEnd.  A Human's step is a chain of actions led by pc; cur is *)
(* the Human whose step is under way (0: none).  An exception that leaves  *)
(* the run sets aborted.                                                   *)
(***************************************************************************)
EXTENDS Integers, Sequences, FiniteSets, TLC

\* ---------------------------------------------------------------- bounds

\* human_count: the number of Humans the model is asked to spawn
NumHumans == 2

\* get_line called on its own: the cells are those of 0..MaxCoord squared
MaxCoord == 6

\* get_visible_tiles called on its own: the greatest vision of the agent
MaxVision == 4

\* get_visible_tiles called on its own: the most cells that bear Smoke
MaxSmoke == 2

\* the run along the corridor: the ticks are counted up to this number
MaxTicks == 6

\* the parallel scheduler called on its own: os.cpu_count()
PoolWorkers == 2

\* cap of the three collaboration counters
MaxCollab == 3

\* how many of the Humans collaborate (model.number_collaborators)
number_collaborators == 1

\* ------------------------------------------------------- program constants

MIN_HEALTH == 0
MAX_HEALTH == 200
MIN_SPEED == 0
MAX_SPEED == 20
MIN_KNOWLEDGE == 0
MAX_EXPERIENCE == 10
MAX_SHOCK == 20
MIN_SHOCK == 0
DEFAULT_SHOCK_MODIFIER == -2
SHOCK_MODIFIER_DEAD_HUMAN == 20
SHOCK_MODIFIER_FIRE == 4
SHOCK_MODIFIER_SMOKE == 1
SHOCK_MODIFIER_AFFECTED_HUMAN == 2
\* 0.8 and 0.9 of three components, in units of 1e-6
PANIC_THRESHOLD == 2400000
FAINT_THRESHOLD == 2700000
HEALTH_MODIFIER_FIRE == 40
HEALTH_MODIFIER_SMOKE == 1
SPEED_MODIFIER_FIRE == 20
SPEED_MODIFIER_SMOKE == 1
SLOWDOWN_THRESHOLD == 100
\* np.random.randint(MIN_PUSH_DAMAGE, MAX_PUSH_DAMAGE) truncates its float
\* bounds 0.01 and 1.0 to the integers 0 and 1
MIN_PUSH_DAMAGE == 0
MAX_PUSH_DAMAGE == 1
SMOKE_RADIUS == 1
SPREAD_RATE == 1
SPREAD_THRESHOLD == 1
\* the Action enumeration: PHYSICAL_SUPPORT is 0, which Python treats as false
PHYSICAL_SUPPORT == 0
MORALE_SUPPORT == 1
VERBAL_SUPPORT == 2
RETREAT == 3
\* "no action" (Python None)
NoAction == -1
DEFAULT_VISIBILITY == 2

NoPos == <<-1, -1>>
NoObj == <<"None", -1, -1, 0>>

\* ------------------------------------------------------------ arithmetic

Abs(n) == IF n < 0 THEN -n ELSE n
Max(a, b) == IF a < b THEN b ELSE a
Min(a, b) == IF a < b THEN a ELSE b

SeqToSet(s) == { s[i] : i \in 1..Len(s) }

\* a reversal that is forgotten
Unreversed(s) == s

RECURSIVE Reverse(_)
Reverse(s) == IF s = <<>> THEN <<>> ELSE Append(Reverse(Tail(s)), Head(s))

\* ------------------------------------------------------------- get_line

RECURSIVE LineWalk(_, _, _, _, _, _, _, _)
LineWalk(x, x2, y, error_margin, diff_x, abs_dy, step_y, line_is_steep) ==
    IF x > x2 THEN <<>>
    ELSE LET coord == IF line_is_steep THEN <<y, x>> ELSE <<x, y>>
             e1 == error_margin - abs_dy
         IN  <<coord>> \o
             (IF e1 < 0
                THEN LineWalk(x + 1, x2, y + step_y, e1 + diff_x, diff_x, abs_dy,
                              step_y, line_is_steep)
                ELSE LineWalk(x + 1, x2, y, e1, diff_x, abs_dy, step_y,
                              line_is_steep))

\* a get_line that does not rotate a steep line
get_line_unrotated(start, end) ==
    LET swapped == start[1] > end[1]
        x1 == IF swapped THEN end[1] ELSE start[1]
        y1 == IF swapped THEN end[2] ELSE start[2]
        x2 == IF swapped THEN start[1] ELSE end[1]
        y2 == IF swapped THEN start[2] ELSE end[2]
        diff_x == x2 - x1
        step_y == IF y1 < y2 THEN 1 ELSE -1
        path == LineWalk(x1, x2, y1, diff_x \div 2, diff_x, Abs(y2 - y1), step_y, FALSE)
    IN  IF swapped THEN Reverse(path) ELSE path

get_line(start, end) ==
    LET line_is_steep == Abs(end[2] - start[2]) > Abs(end[1] - start[1])
        ax1 == IF line_is_steep THEN start[2] ELSE start[1]
        ay1 == IF line_is_steep THEN start[1] ELSE start[2]
        ax2 == IF line_is_steep THEN end[2] ELSE end[1]
        ay2 == IF line_is_steep THEN end[1] ELSE end[2]
        swapped == ax1 > ax2
        x1 == IF swapped THEN ax2 ELSE ax1
        y1 == IF swapped THEN ay2 ELSE ay1
        x2 == IF swapped THEN ax1 ELSE ax2
        y2 == IF swapped THEN ay1 ELSE ay2
        diff_x == x2 - x1
        diff_y == y2 - y1
        step_y == IF y1 < y2 THEN 1 ELSE -1
        path == LineWalk(x1, x2, y1, diff_x \div 2, diff_x, Abs(diff_y), step_y,
                         line_is_steep)
    IN  IF swapped THEN Reverse(path) ELSE path

\* ------------------------------------------------------------ floor plans

(***************************************************************************)
(* A floor plan is a square of cell kinds, row y of plan p is p[y + 1] and *)
(* cell <<x, y>> is p[y + 1][x + 1]:  "W" wall, "E" fire exit,             *)
(* "F" furniture, "D" door, "S" spawn point, "_" open floor.               *)
(* FireEvacuation.__init__ sizes                                           *)
(* the grid MultiGrid(height, width) from a plan of width x height, so     *)
(* only square plans can be loaded.                                        *)
(***************************************************************************)
FloorPlans ==
    << \* 1: a column of open floor between furniture and the fire exit
       << <<"F", "_", "E">>,
          <<"W", "_", "W">>,
          <<"W", "_", "W">> >>,
       \* 2: a fire exit that no open cell touches, seen across furniture
       << <<"_", "F", "E">>,
          <<"_", "W", "W">>,
          <<"W", "W", "W">> >>,
       \* 3: two spawn points on the way to the exit, furniture in sight
       << <<"F", "_", "S">>,
          <<"W", "W", "S">>,
          <<"W", "W", "E">> >>,
       \* 4: an open hall
       << <<"_", "_", "_", "_", "_">>,
          <<"_", "_", "_", "_", "_">>,
          <<"_", "_", "_", "_", "_">>,
          <<"_", "_", "_", "_", "_">>,
          <<"_", "_", "_", "_", "_">> >>,
       \* 5: a corridor of spawn points that ends at the fire exit, beside a
       \* walled room with the furniture
       << <<"S", "S", "S", "S", "E">>,
          <<"W", "W", "W", "W", "W">>,
          <<"W", "F", "F", "W", "W">>,
          <<"W", "W", "W", "W", "W">>,
          <<"W", "W", "W", "W", "W">> >>,
       \* 6: a corridor that furniture cuts before the fire exit
       << <<"S", "S", "F", "_", "E">>,
          <<"W", "W", "W", "W", "W">>,
          <<"W", "W", "W", "W", "W">>,
          <<"W", "W", "W", "W", "W">>,
          <<"W", "W", "W", "W", "W">> >>,
       \* 7: a corridor of spawn points with a fire exit at either end
       << <<"E", "S", "S", "S", "E">>,
          <<"W", "W", "W", "W", "W">>,
          <<"W", "F", "F", "W", "W">>,
          <<"W", "W", "W", "W", "W">>,
          <<"W", "W", "W", "W", "W">> >>,
       \* 8: a spawn point before a door, the fire exit out of sight
       << <<"S", "D", "_", "_", "W">>,
          <<"W", "W", "W", "W", "W">>,
          <<"W", "F", "F", "W", "W">>,
          <<"W", "W", "W", "W", "W">>,
          <<"W", "W", "W", "W", "E">> >> >>

\* the plans the runs of the model are built from
PlanIds == 1..3

\* the plan on which get_visible_tiles is called on its own
Hall == 4

\* the plan of the run of one Human along a corridor
Corridor == 5

\* the plan of the run of one Human in a corridor that is cut
CutCorridor == 6

\* the plan of the run of one Human between two fire exits
TwoExits == 7

\* the plan of the run of one Human through a door
Doorway == 8

Width(fp) == Len(FloorPlans[fp])
Height(fp) == Len(FloorPlans[fp])

Cells(fp) == (0..(Width(fp) - 1)) \X (0..(Height(fp) - 1))

KindAt(fp, c) == FloorPlans[fp][c[2] + 1][c[1] + 1]

out_of_bounds(fp, c) ==
    ~(c[1] >= 0 /\ c[1] < Width(fp) /\ c[2] >= 0 /\ c[2] < Height(fp))

\* a cell the loader leaves empty
IsOpen(fp, c) == KindAt(fp, c) \in {"_", "S"}

\* model.spawn_pos_list
spawn_pos_list(fp) == { c \in Cells(fp) : KindAt(fp, c) = "S" }

\* the random_spawn parameter the plan is run with: spawn points are used
\* where the plan has any
random_spawn(fp) == spawn_pos_list(fp) = {}

\* the floor object the loader places on a cell (none on open floor)
FloorObject(fp, c) ==
    LET k == KindAt(fp, c)
    IN  IF k = "W" THEN <<"Wall", c[1], c[2], 0>>
        ELSE IF k = "E" THEN <<"FireExit", c[1], c[2], 0>>
        ELSE IF k = "F" THEN <<"Furniture", c[1], c[2], 0>>
        ELSE IF k = "D" THEN <<"Door", c[1], c[2], 0>>
        ELSE NoObj

\* model.furniture, model.fire_exits and model.doors (fire exits are doors too)
furniture(fp) == { c \in Cells(fp) : KindAt(fp, c) = "F" }
fire_exits(fp) == { c \in Cells(fp) : KindAt(fp, c) = "E" }
doors(fp) == { c \in Cells(fp) : KindAt(fp, c) \in {"D", "E"} }

\* grid.get_neighborhood: the cells within the radius, in sorted order
get_neighborhood(fp, pos, moore, include_center, radius) ==
    LET side == 2 * radius + 1
        all == [ k \in 1..(side * side) |->
                   << pos[1] + ((k - 1) \div side) - radius,
                      pos[2] + ((k - 1) % side) - radius >> ]
        Keep(c) == /\ ~out_of_bounds(fp, c)
                   /\ (include_center \/ c # pos)
                   /\ (moore \/ Abs(c[1] - pos[1]) + Abs(c[2] - pos[2]) <= radius)
    IN  SelectSeq(all, Keep)

\* ------------------------------------------------- the traversability graph

\* FireEvacuation.__init__: an edge from every empty or door cell to each cell
\* of its Moore neighbourhood (itself included) that is empty or a door/exit
GraphEdges(fp) ==
    UNION { { {pos, nb} : nb \in { c \in Cells(fp) :
                                     /\ Abs(c[1] - pos[1]) <= 1
                                     /\ Abs(c[2] - pos[2]) <= 1
                                     /\ (IsOpen(fp, c) \/ c \in doors(fp)) } } :
            pos \in { c \in Cells(fp) : IsOpen(fp, c) \/ KindAt(fp, c) = "D" } }

GraphNodes(fp) == UNION GraphEdges(fp)

\* the neighbours of a node in the working graph (nodes: the unpruned ones)
Adjacent(fp, nodes, n) ==
    { m \in nodes : m # n /\ {n, m} \in GraphEdges(fp) }

\* breadth-first distances to target: dist[n] = -1 when target is unreachable
RECURSIVE BfsFrom(_, _, _, _, _)
BfsFrom(fp, nodes, frontier, d, dist) ==
    IF frontier = {} THEN dist
    ELSE LET next == { m \in nodes : /\ dist[m] = -1
                                     /\ m \notin frontier
                                     /\ \E n \in frontier : {n, m} \in GraphEdges(fp) }
             dist1 == [ n \in nodes |-> IF n \in frontier THEN d ELSE dist[n] ]
         IN  BfsFrom(fp, nodes, next, d + 1, dist1)

Distances(fp, nodes, target) ==
    BfsFrom(fp, nodes, {target}, 0, [ n \in nodes |-> -1 ])

RECURSIVE PathsDown(_, _, _, _)
PathsDown(fp, nodes, dist, n) ==
    IF dist[n] = 0 THEN { <<n>> }
    ELSE UNION { { <<n>> \o p : p \in PathsDown(fp, nodes, dist, m) } :
                 m \in { a \in Adjacent(fp, nodes, n) : dist[a] = dist[n] - 1 } }

\* nx.shortest_path(graph, source, target): every shortest path it may return;
\* the empty set when a node is missing or no path exists
ShortestPaths(fp, nodes, source, target) ==
    IF source \notin nodes \/ target \notin nodes THEN {}
    ELSE LET dist == Distances(fp, nodes, target)
         IN  IF dist[source] = -1 THEN {} ELSE PathsDown(fp, nodes, dist, source)

\* ----------------------------------------------------------- panic score

\* e^-q for q = 0..10, in units of 1e-6
ExpNegInt(q) ==
    IF q > 10 THEN 0
    ELSE << 1000000, 367879, 135335, 49787, 18316, 6738, 2479, 912, 335, 123, 45 >>[q + 1]

\* the Taylor series of e^-(num/den) for 0 <= num <= den, in units of 1e-6
RECURSIVE ExpSeries(_, _, _, _, _)
ExpSeries(num, den, k, term, sign) ==
    IF k > 12 THEN 0
    ELSE LET t == (term * num) \div (den * k)
         IN  sign * t + ExpSeries(num, den, k + 1, t, -sign)

\* 1 / np.exp(num / den), in units of 1e-6
ExpNeg(num, den) ==
    LET q == num \div den
        b == 1000000 + ExpSeries(num % den, den, 1, 1000000, -1)
        a == ExpNegInt(q)
    IN  IF q = 0 THEN b
        ELSE (a * (b \div 1000) + (a * (b % 1000)) \div 1000) \div 1000

\* ------------------------------------------------------------------ state

VARIABLES
    floor,             \* the floor plan the model was built from
    graph,             \* model.graph: the edges of the traversability graph
    fire_probability,  \* model.fire_probability, in percent
    fire_started,      \* model.fire_started
    running,           \* model.running
    grid,              \* model.grid: cell -> the list of objects on it
    smoke,             \* cell -> the [spread, spread_rate] of each Smoke on it
    hum,               \* the attributes of each Human
    todo,              \* the agents schedule.step() has still to step this tick
    in_tick,           \* model.step() is executing
    cur,               \* the Human whose step() is executing (0: none)
    pc,                \* where that step() is
    aborted,           \* an exception has ended the run
    call               \* a call of a function on its own: its arguments and
                       \* its result (NoCall in the runs of the model)

vars == << floor, graph, fire_probability, fire_started, running, grid, smoke, hum,
           todo, in_tick, cur, pc, aborted, call >>

\* no function is called on its own
NoCall == [ op |-> "none" ]

Humans == 1..NumHumans

HumanObj(h) == <<"Human", -1, -1, h>>
DeadHumanObj(h, c) == <<"DeadHuman", c[1], c[2], h>>

Kind(obj) == obj[1]
IsHuman(obj) == Kind(obj) = "Human"

\* ------------------------------------------------------ object attributes

\* the traversable attribute of an object (a Human's changes when incapacitated)
traversable(H, obj) ==
    IF IsHuman(obj) THEN H[obj[4]].traversable
    ELSE Kind(obj) \in {"Door", "FireExit", "Smoke", "DeadHuman", "Sight"}

flammable(obj) == Kind(obj) \in {"Furniture", "DeadHuman", "Human"}

spreads_smoke(obj) ==
    Kind(obj) \in {"Sight", "Door", "Furniture", "Fire", "DeadHuman", "Human"}

visibility(obj) ==
    IF Kind(obj) = "FireExit" THEN 6
    ELSE IF Kind(obj) = "Fire" THEN 20
    ELSE IF Kind(obj) = "Sight" THEN -1
    ELSE DEFAULT_VISIBILITY

\* agent.get_position()
get_position(H, obj) ==
    IF IsHuman(obj) THEN H[obj[4]].pos ELSE <<obj[2], obj[3]>>

\* ------------------------------------------------------------------- grid

place_agent(G, obj, c) == [G EXCEPT ![c] = Append(@, obj)]

RemoveFrom(seq, obj) == SelectSeq(seq, LAMBDA o : o # obj)

remove_agent(G, obj, c) == [G EXCEPT ![c] = RemoveFrom(@, obj)]

\* grid.get_cell_list_contents of a list of cells
RECURSIVE get_cell_list_contents(_, _)
get_cell_list_contents(G, cells) ==
    IF cells = <<>> THEN <<>>
    ELSE G[Head(cells)] \o get_cell_list_contents(G, Tail(cells))

CountKind(seq, k) == Cardinality({ i \in 1..Len(seq) : Kind(seq[i]) = k })

HasKind(seq, k) == \E i \in 1..Len(seq) : Kind(seq[i]) = k

\* Human.location_is_traversable
location_is_traversable(H, G, pos) ==
    \A i \in 1..Len(G[pos]) : traversable(H, G[pos][i])

\* ---------------------------------------------------------- Fire and Smoke

NewSmoke == [spread |-> 0, spread_rate |-> SPREAD_RATE]

FireObjAt(G, c) == <<"Fire", c[1], c[2], CountKind(G[c], "Fire") + 1>>
SmokeObjAt(G, c) == <<"Smoke", c[1], c[2], CountKind(G[c], "Smoke") + 1>>

\* a loop body that sets a flammable neighbour alight whether or not it
\* burns already
FireNeighborRekindled(G, S, c) ==
    LET contents == G[c]
        has_smoke == HasKind(contents, "Smoke")
        ignite == \E i \in 1..Len(contents) : flammable(contents[i])
        seed == /\ ~has_smoke
                /\ \E i \in 1..Len(contents) : spreads_smoke(contents[i])
        G1 == IF ignite THEN place_agent(G, FireObjAt(G, c), c) ELSE G
        G2 == IF seed THEN place_agent(G1, SmokeObjAt(G1, c), c) ELSE G1
        S2 == IF seed THEN [S EXCEPT ![c] = Append(@, NewSmoke)] ELSE S
    IN  IF Len(contents) > 0 THEN <<G2, S2>> ELSE <<G, S>>

\* the body of Fire.step's loop for one neighbour cell: <<grid, smoke>> after it
FireNeighbor(G, S, c) ==
    LET contents == G[c]
        has_smoke == HasKind(contents, "Smoke")
        has_fire == HasKind(contents, "Fire")
        ignite == /\ ~has_fire
                  /\ \E i \in 1..Len(contents) : flammable(contents[i])
        seed == /\ ~has_smoke
                /\ \E i \in 1..Len(contents) : spreads_smoke(contents[i])
        G1 == IF ignite THEN place_agent(G, FireObjAt(G, c), c) ELSE G
        G2 == IF seed THEN place_agent(G1, SmokeObjAt(G1, c), c) ELSE G1
        S2 == IF seed THEN [S EXCEPT ![c] = Append(@, NewSmoke)] ELSE S
    IN  IF Len(contents) > 0 THEN <<G2, S2>> ELSE <<G, S>>

RECURSIVE FireSpread(_, _, _)
FireSpread(G, S, nbs) ==
    IF nbs = <<>> THEN <<G, S>>
    ELSE LET r == FireNeighbor(G, S, Head(nbs))
         IN  FireSpread(r[1], r[2], Tail(nbs))

\* a loop body that lets Smoke through Smoke: only the other objects of the
\* cell are asked whether they spread smoke
SmokeNeighborThroughSmoke(G, S, c) ==
    LET contents == G[c]
        place_smoke == \A i \in 1..Len(contents) :
                          Kind(contents[i]) = "Smoke" \/ spreads_smoke(contents[i])
    IN  IF place_smoke
          THEN << place_agent(G, SmokeObjAt(G, c), c),
                  [S EXCEPT ![c] = Append(@, NewSmoke)] >>
          ELSE <<G, S>>

\* the body of Smoke.step's loop for one neighbour cell
SmokeNeighbor(G, S, c) ==
    LET contents == G[c]
        place_smoke == \A i \in 1..Len(contents) : spreads_smoke(contents[i])
    IN  IF place_smoke
          THEN << place_agent(G, SmokeObjAt(G, c), c),
                  [S EXCEPT ![c] = Append(@, NewSmoke)] >>
          ELSE <<G, S>>

RECURSIVE SmokeSpread(_, _, _)
SmokeSpread(G, S, nbs) ==
    IF nbs = <<>> THEN <<G, S>>
    ELSE LET r == SmokeNeighbor(G, S, Head(nbs))
         IN  SmokeSpread(r[1], r[2], Tail(nbs))

\* Fire.step
FireStep(f) ==
    /\ in_tick /\ ~aborted /\ cur = 0
    /\ f \in todo /\ Kind(f) = "Fire"
    /\ LET r == FireSpread(grid, smoke,
                   get_neighborhood(floor, <<f[2], f[3]>>, FALSE, FALSE, SMOKE_RADIUS))
       IN  grid' = r[1] /\ smoke' = r[2]
    /\ todo' = todo \ {f}
    /\ UNCHANGED << call, floor, graph, fire_probability, fire_started, running, hum, in_tick,
                    cur, pc, aborted >>

\* Smoke.step
SmokeStep(s) ==
    /\ in_tick /\ ~aborted /\ cur = 0
    /\ s \in todo /\ Kind(s) = "Smoke"
    /\ LET c == <<s[2], s[3]>>
           st == smoke[c][s[4]]
           r == IF st.spread >= 1
                  THEN SmokeSpread(grid, smoke,
                         get_neighborhood(floor, c, FALSE, FALSE, SMOKE_RADIUS))
                  ELSE <<grid, smoke>>
           st1 == IF st.spread >= SPREAD_THRESHOLD
                    THEN [st EXCEPT !.spread_rate = 0]
                    ELSE [st EXCEPT !.spread = st.spread + st.spread_rate]
       IN  /\ grid' = r[1]
           /\ smoke' = [r[2] EXCEPT ![c][s[4]] = st1]
    /\ todo' = todo \ {s}
    /\ UNCHANGED << call, floor, graph, fire_probability, fire_started, running, hum, in_tick,
                    cur, pc, aborted >>

\* --------------------------------------------------------- the model's tick

\* get_status that takes no notice of the escaped flag
get_status_ignoring_escape(H, h) ==
    IF H[h].health > MIN_HEALTH THEN "ALIVE" ELSE "DEAD"

\* Human.get_status
get_status(H, h) ==
    IF H[h].health > MIN_HEALTH /\ ~H[h].escaped THEN "ALIVE"
    ELSE IF H[h].health <= MIN_HEALTH /\ ~H[h].escaped THEN "DEAD"
    ELSE "ESCAPED"

\* FireEvacuation.count_human_status: over the Humans in the schedule
count_human_status(H, status) ==
    Cardinality({ h \in Humans : H[h].scheduled /\ get_status(H, h) = status })

AllObjects(G) == UNION { SeqToSet(G[c]) : c \in DOMAIN G }

\* FireEvacuation.step up to schedule.step(): RandomActivation takes the list
\* of scheduled agents and steps them in a shuffled order
TickBegin ==
    /\ running /\ ~aborted /\ ~in_tick
    /\ in_tick' = TRUE
    /\ todo' = { HumanObj(h) : h \in { k \in Humans : hum[k].scheduled } }
               \cup { o \in AllObjects(grid) : Kind(o) \in {"Fire", "Smoke"} }
    /\ UNCHANGED << call, floor, graph, fire_probability, fire_started, running, grid, smoke,
                    hum, cur, pc, aborted >>

\* an end of tick that attempts start_fire whether or not a fire has started
EndOfTickStartingAgain ==
    /\ in_tick /\ ~aborted /\ cur = 0 /\ todo = {}
    /\ in_tick' = FALSE
    /\ \/ /\ fire_probability < 100
          /\ UNCHANGED << fire_started, grid >>
       \/ /\ fire_probability > 0
          /\ \E pos \in furniture(floor) :
                grid' = place_agent(grid, FireObjAt(grid, pos), pos)
          /\ fire_started' = TRUE
    /\ running' = IF count_human_status(hum, "ALIVE") = 0 THEN FALSE ELSE running
    /\ UNCHANGED << floor, graph, fire_probability, smoke, hum, todo, cur, pc, aborted >>

\* FireEvacuation.step after schedule.step(): start_fire and the running flag
EndOfTick ==
    /\ in_tick /\ ~aborted /\ cur = 0 /\ todo = {}
    /\ in_tick' = FALSE
    /\ \/ \* no attempt, or random.random() >= fire_probability
          /\ fire_started \/ fire_probability < 100
          /\ UNCHANGED << fire_started, grid >>
       \/ \* start_fire: random.random() < fire_probability
          /\ ~fire_started /\ fire_probability > 0
          /\ \E pos \in furniture(floor) :
                grid' = place_agent(grid, FireObjAt(grid, pos), pos)
          /\ fire_started' = TRUE
    /\ running' = IF count_human_status(hum, "ALIVE") = 0 THEN FALSE ELSE running
    /\ UNCHANGED << floor, graph, fire_probability, smoke, hum, todo, cur, pc, aborted >>

TickEnd == EndOfTick /\ UNCHANGED call

\* ------------------------------------------------------- get_visible_tiles

\* a loop over one cell's contents that a Wall does not end
RECURSIVE CellScanPastWalls(_, _, _, _)
CellScanPastWalls(contents, j, smoke_count, visible_contents) ==
    IF j > Len(contents) THEN <<FALSE, smoke_count, visible_contents>>
    ELSE LET obj == contents[j]
         IN  IF Kind(obj) = "Sight"
               THEN CellScanPastWalls(contents, j + 1, smoke_count, visible_contents)
             ELSE LET sc == IF Kind(obj) = "Smoke" THEN smoke_count + 1
                                                    ELSE smoke_count
                      vc == IF visibility(obj) # 0 /\ visibility(obj) > sc
                              THEN Append(visible_contents, obj)
                              ELSE visible_contents
                  IN  CellScanPastWalls(contents, j + 1, sc, vc)

\* the loop over one cell's contents: <<blocked, smoke_count, visible_contents>>
RECURSIVE CellScan(_, _, _, _)
CellScan(contents, j, smoke_count, visible_contents) ==
    IF j > Len(contents) THEN <<FALSE, smoke_count, visible_contents>>
    ELSE LET obj == contents[j]
         IN  IF Kind(obj) = "Sight"
               THEN CellScan(contents, j + 1, smoke_count, visible_contents)
             ELSE IF Kind(obj) = "Wall"
               THEN <<TRUE, smoke_count, visible_contents>>
             ELSE LET sc == IF Kind(obj) = "Smoke" THEN smoke_count + 1
                                                    ELSE smoke_count
                      vc == IF visibility(obj) # 0 /\ visibility(obj) > sc
                              THEN Append(visible_contents, obj)
                              ELSE visible_contents
                  IN  CellScan(contents, j + 1, sc, vc)

\* the walk along one ray: <<checked_tiles, visible_neighborhood>>
RECURSIVE RayWalk(_, _, _, _, _, _)
RayWalk(G, path, i, smoke_count, checked_tiles, visible_neighborhood) ==
    IF i > Len(path) THEN <<checked_tiles, visible_neighborhood>>
    ELSE LET tile == path[i]
             r == CellScan(G[tile], 1, smoke_count, <<>>)
         IN  IF r[1]
               THEN << checked_tiles \cup { path[k] : k \in i..Len(path) },
                       visible_neighborhood >>
               ELSE RayWalk(G, path, i + 1, r[2], checked_tiles \cup {tile},
                            visible_neighborhood \cup { <<tile, r[3]>> })

RECURSIVE VisibleScan(_, _, _, _, _)
VisibleScan(G, pos, targets, checked_tiles, visible_neighborhood) ==
    IF targets = <<>> THEN visible_neighborhood
    ELSE IF Head(targets) \in checked_tiles
      THEN VisibleScan(G, pos, Tail(targets), checked_tiles, visible_neighborhood)
    ELSE LET r == RayWalk(G, get_line(pos, Head(targets)), 1, 0, checked_tiles,
                          visible_neighborhood)
         IN  VisibleScan(G, pos, Tail(targets), r[1], r[2])

\* Human.get_visible_tiles: the set of <<tile, visible contents>> pairs
get_visible_tiles(fp, G, pos, vision) ==
    VisibleScan(G, pos, Reverse(get_neighborhood(fp, pos, TRUE, TRUE, vision)), {}, {})

\* self.visible_tiles of Human h while its step runs (pos and the grid's
\* placement do not change between get_visible_tiles and its last use)
visible_tiles(h) == get_visible_tiles(floor, grid, hum[h].pos, hum[h].vision)

VisiblePositions(vt) == { e[1] : e \in vt }

\* ----------------------------------------------------- Human: small methods

\* Python's truth value of self.planned_action: None and the enumeration
\* value 0 are false
Truthy(action) == action # NoAction /\ action # 0

\* Human.get_panic_score, as three times the score in units of 1e-6
get_panic_score(H, h) ==
    ExpNeg(H[h].health, MAX_HEALTH * H[h].nervousness)
    + ExpNeg(H[h].experience, H[h].nervousness)
    + H[h].shock * (1000000 \div MAX_SHOCK)

\* stop_carrying that forgets to reset the carried agent's flag
stop_carrying_keeps_flag(H, h) ==
    IF H[h].carrying # 0
      THEN [H EXCEPT ![h].carrying = 0, ![h].planned_action = NoAction]
      ELSE H

\* Human.stop_carrying
stop_carrying(H, h) ==
    IF H[h].carrying # 0
      THEN [H EXCEPT ![H[h].carrying].carried = FALSE,
                     ![h].carrying = 0,
                     ![h].planned_action = NoAction]
      ELSE H

\* Human.incapacitate
incapacitate(H, h) ==
    [stop_carrying(H, h) EXCEPT ![h].mobility = "INCAPACITATED",
                                ![h].traversable = TRUE]

\* die that leaves no DeadHuman where the Human stood
die_leaves_no_marker(H, G, h) ==
    << [H EXCEPT ![h].pos = NoPos, ![h].scheduled = FALSE],
       remove_agent(G, HumanObj(h), H[h].pos) >>

\* die without schedule.remove
die_keeps_schedule(H, G, h) ==
    LET pos == H[h].pos
    IN  << [H EXCEPT ![h].pos = NoPos],
           place_agent(remove_agent(G, HumanObj(h), pos), DeadHumanObj(h, pos), pos) >>

\* Human.die: <<hum, grid>> after it
die(H, G, h) ==
    LET pos == H[h].pos
    IN  << [H EXCEPT ![h].pos = NoPos, ![h].scheduled = FALSE],
           place_agent(remove_agent(G, HumanObj(h), pos), DeadHumanObj(h, pos), pos) >>

\* grid.move_agent of a Human: <<hum, grid>> after it
move_agent(H, G, h, pos) ==
    << [H EXCEPT ![h].pos = pos],
       place_agent(remove_agent(G, HumanObj(h), H[h].pos), HumanObj(h), pos) >>

\* a loop in which a Fire slows a Human no more than Smoke does
RECURSIVE HazardLoopSlowingLittle(_, _, _, _)
HazardLoopSlowingLittle(contents, i, health, speed) ==
    IF i > Len(contents) THEN <<health, speed>>
    ELSE IF Kind(contents[i]) = "Fire"
      THEN HazardLoopSlowingLittle(contents, i + 1, health - HEALTH_MODIFIER_FIRE,
                                   speed - SPEED_MODIFIER_SMOKE)
    ELSE IF Kind(contents[i]) = "Smoke"
      THEN LET h1 == health - HEALTH_MODIFIER_SMOKE
           IN  HazardLoopSlowingLittle(contents, i + 1, h1,
                          IF h1 < SLOWDOWN_THRESHOLD THEN speed - SPEED_MODIFIER_SMOKE
                                                     ELSE speed)
    ELSE HazardLoopSlowingLittle(contents, i + 1, health, speed)

\* the loop of health_mobility_rules over the neighbourhood's contents:
\* <<health, speed>> after it
RECURSIVE HazardLoop(_, _, _, _)
HazardLoop(contents, i, health, speed) ==
    IF i > Len(contents) THEN <<health, speed>>
    ELSE IF Kind(contents[i]) = "Fire"
      THEN HazardLoop(contents, i + 1, health - HEALTH_MODIFIER_FIRE,
                      speed - SPEED_MODIFIER_FIRE)
    ELSE IF Kind(contents[i]) = "Smoke"
      THEN LET h1 == health - HEALTH_MODIFIER_SMOKE
           IN  HazardLoop(contents, i + 1, h1,
                          IF h1 < SLOWDOWN_THRESHOLD THEN speed - SPEED_MODIFIER_SMOKE
                                                     ELSE speed)
    ELSE HazardLoop(contents, i + 1, health, speed)

\* health_mobility_rules that tests the speed before the health
health_mobility_rules_speed_first(H, G, h) ==
    LET contents == get_cell_list_contents(G,
                        get_neighborhood(floor, H[h].pos, TRUE, TRUE, 1))
        r == HazardLoop(contents, 1, H[h].health, H[h].speed)
        health == IF r[1] < MIN_HEALTH THEN MIN_HEALTH ELSE r[1]
        speed == IF r[2] < MIN_SPEED THEN MIN_SPEED ELSE r[2]
        H1 == [H EXCEPT ![h].health = health, ![h].speed = speed]
    IN  IF speed = MIN_SPEED THEN <<incapacitate(H1, h), G>>
        ELSE IF health = MIN_HEALTH THEN die(stop_carrying(H1, h), G, h)
        ELSE <<H1, G>>

\* Human.health_mobility_rules: <<hum, grid>> after it
health_mobility_rules(H, G, h) ==
    LET contents == get_cell_list_contents(G,
                        get_neighborhood(floor, H[h].pos, TRUE, TRUE, 1))
        r == HazardLoop(contents, 1, H[h].health, H[h].speed)
        health == IF r[1] < MIN_HEALTH THEN MIN_HEALTH ELSE r[1]
        speed == IF r[2] < MIN_SPEED THEN MIN_SPEED ELSE r[2]
        H1 == [H EXCEPT ![h].health = health, ![h].speed = speed]
    IN  IF health = MIN_HEALTH THEN die(stop_carrying(H1, h), G, h)
        ELSE IF speed = MIN_SPEED THEN <<incapacitate(H1, h), G>>
        ELSE <<H1, G>>

\* -------------------------------------------------- Human: panic and learning

\* what one visible object adds to panic_rules' shock_modifier
ShockOf(H, obj) ==
    IF Kind(obj) = "Fire" THEN SHOCK_MODIFIER_FIRE - DEFAULT_SHOCK_MODIFIER
    ELSE IF Kind(obj) = "Smoke" THEN SHOCK_MODIFIER_SMOKE - DEFAULT_SHOCK_MODIFIER
    ELSE IF Kind(obj) = "DeadHuman"
      THEN SHOCK_MODIFIER_DEAD_HUMAN - DEFAULT_SHOCK_MODIFIER
    ELSE IF IsHuman(obj) /\ H[obj[4]].mobility # "NORMAL"
      THEN SHOCK_MODIFIER_AFFECTED_HUMAN - DEFAULT_SHOCK_MODIFIER
    ELSE 0

RECURSIVE ShockOfSeq(_, _, _)
ShockOfSeq(H, seq, i) ==
    IF i > Len(seq) THEN 0 ELSE ShockOf(H, seq[i]) + ShockOfSeq(H, seq, i + 1)

\* the two nested loops of panic_rules over visible_tiles
RECURSIVE ShockOfEntries(_, _)
ShockOfEntries(H, entries) ==
    IF entries = {} THEN 0
    ELSE LET e == CHOOSE x \in entries : TRUE
         IN  ShockOfSeq(H, e[2], 1) + ShockOfEntries(H, entries \ {e})

\* an empty known_tiles
NoTiles == [ c \in {} |-> {} ]

\* panic_rules up to the clamp of shock: belief and shock updated
shock_rules(H, h, vt) ==
    LET shock_modifier == DEFAULT_SHOCK_MODIFIER + ShockOfEntries(H, vt)
        believes == \/ H[h].believes_alarm
                    \/ shock_modifier # DEFAULT_SHOCK_MODIFIER
        s1 == H[h].shock + shock_modifier
        shock == IF s1 > MAX_SHOCK THEN MAX_SHOCK
                 ELSE IF s1 < MIN_SHOCK THEN MIN_SHOCK ELSE s1
    IN  [H EXCEPT ![h].believes_alarm = believes, ![h].shock = shock]

\* panic_rules from the test of the panic score on
mobility_rules(H, h, panic_score) ==
    IF panic_score >= PANIC_THRESHOLD
      THEN [stop_carrying(H, h) EXCEPT ![h].mobility = "PANIC",
                                       ![h].known_tiles = NoTiles,
                                       ![h].knowledge = 0]
    ELSE IF panic_score < PANIC_THRESHOLD /\ H[h].mobility = "PANIC"
      THEN [H EXCEPT ![h].mobility = "NORMAL"]
    ELSE H

\* panic_rules without the early return of a morale-boosted Human
panic_rules_ignoring_boost(H, h, vt) ==
    LET H1 == shock_rules(H, h, vt)
    IN  mobility_rules(H1, h, get_panic_score(H1, h))

\* panic_rules that tests the panic score of before the shock update
panic_rules_stale_score(H, h, vt) ==
    IF H[h].morale_boost THEN H
    ELSE mobility_rules(shock_rules(H, h, vt), h, get_panic_score(H, h))

\* Human.panic_rules: hum after it
panic_rules(H, h, vt) ==
    IF H[h].morale_boost THEN H
    ELSE LET H1 == shock_rules(H, h, vt)
         IN  mobility_rules(H1, h, get_panic_score(H1, h))

\* what known_tiles keeps of a tuple of visible objects: their kinds
KindsOf(seq) == { Kind(seq[i]) : i \in 1..Len(seq) }

\* the ways the loop of learn_environment may end for the visible positions
\* ps: where two entries of visible_tiles share a position, the one the
\* iteration of the set yields last is kept
RECURSIVE LearnLoop(_, _, _)
LearnLoop(known, vt, ps) ==
    IF ps = {} THEN {known}
    ELSE LET pos == CHOOSE x \in ps : TRUE
             rest == LearnLoop(known, vt, ps \ {pos})
         IN  UNION { { [ c \in DOMAIN k \cup {pos} |->
                           IF c = pos THEN KindsOf(e[2]) ELSE k[c] ] : k \in rest } :
                     e \in { x \in vt : x[1] = pos } }

\* Human.learn_environment: the values hum may have after it
learn_environment(H, h, vt) ==
    IF H[h].knowledge < Cardinality(Cells(floor))
      THEN LET new_tiles ==
                   Cardinality(VisiblePositions(vt) \ DOMAIN H[h].known_tiles)
           IN  { [H EXCEPT ![h].known_tiles = k,
                           ![h].knowledge = H[h].knowledge + new_tiles] :
                 k \in LearnLoop(H[h].known_tiles, vt, VisiblePositions(vt)) }
      ELSE {H}

\* ------------------------------------------------------- Human.step, part 1

\* the beginning of a step that returns for a dead Human only, not for an
\* incapacitated one
HealthMobilityRulesThenOn(h) ==
    /\ in_tick /\ ~aborted /\ cur = 0
    /\ HumanObj(h) \in todo
    /\ todo' = todo \ {HumanObj(h)}
    /\ IF hum[h].scheduled /\ ~hum[h].escaped /\ hum[h].pos # NoPos
         THEN LET r == health_mobility_rules(hum, grid, h)
              IN  /\ hum' = r[1]
                  /\ grid' = r[2]
                  /\ IF r[1][h].pos = NoPos
                       THEN UNCHANGED << cur, pc >>
                       ELSE cur' = h /\ pc' = "panic"
         ELSE UNCHANGED << hum, grid, cur, pc >>
    /\ UNCHANGED << call, floor, graph, fire_probability, fire_started, running, smoke, in_tick,
                    aborted >>

\* Human.step up to the first return: the guard, health_mobility_rules and the
\* return of an incapacitated or dead Human
HealthMobilityRules(h) ==
    /\ in_tick /\ ~aborted /\ cur = 0
    /\ HumanObj(h) \in todo
    /\ todo' = todo \ {HumanObj(h)}
    /\ IF hum[h].scheduled /\ ~hum[h].escaped /\ hum[h].pos # NoPos
         THEN LET r == health_mobility_rules(hum, grid, h)
              IN  /\ hum' = r[1]
                  /\ grid' = r[2]
                  /\ IF r[1][h].mobility = "INCAPACITATED" \/ r[1][h].pos = NoPos
                       THEN UNCHANGED << cur, pc >>
                       ELSE cur' = h /\ pc' = "panic"
         ELSE UNCHANGED << hum, grid, cur, pc >>
    /\ UNCHANGED << call, floor, graph, fire_probability, fire_started, running, smoke, in_tick,
                    aborted >>

\* get_visible_tiles and panic_rules
PanicRules(h) ==
    /\ ~aborted /\ cur = h /\ pc = "panic"
    /\ hum' = panic_rules(hum, h, visible_tiles(h))
    /\ pc' = "learn"
    /\ UNCHANGED << call, floor, graph, fire_probability, fire_started, running, grid, smoke,
                    todo, in_tick, cur, aborted >>

\* learn_environment
LearnEnvironment(h) ==
    /\ ~aborted /\ cur = h /\ pc = "learn"
    /\ hum' \in learn_environment(hum, h, visible_tiles(h))
    /\ pc' = "plan"
    /\ UNCHANGED << call, floor, graph, fire_probability, fire_started, running, grid, smoke,
                    todo, in_tick, cur, aborted >>

\* ------------------------------------------------------- Human: planning

ClearTarget(H, h) == [H EXCEPT ![h].target_agent = NoObj, ![h].target_pos = NoPos]

ClearPlan(H, h) ==
    [H EXCEPT ![h].target_agent = NoObj, ![h].target_pos = NoPos,
              ![h].planned_action = NoAction]

SetTarget(H, h, agent, pos) ==
    [H EXCEPT ![h].target_agent = agent, ![h].target_pos = pos]

\* the fire exits of known_tiles
KnownExits(H, h) ==
    { pos \in DOMAIN H[h].known_tiles : "FireExit" \in H[h].known_tiles[pos] }

\* an attempt_exit_plan that takes whichever known fire exit comes last
attempt_exit_plan_any_exit(H, h, vt) ==
    LET H0 == ClearTarget(H, h)
        exits == KnownExits(H, h)
        door_entries == { e \in vt : HasKind(e[2], "Door") }
        FirstDoor(e) == e[2][CHOOSE i \in 1..Len(e[2]) :
                               /\ Kind(e[2][i]) = "Door"
                               /\ \A j \in 1..(i - 1) : Kind(e[2][j]) # "Door"]
    IN  IF exits # {}
          THEN { SetTarget(H0, h, <<"FireExit", pos[1], pos[2], 0>>, pos) : pos \in exits }
        ELSE IF door_entries # {}
          THEN { SetTarget(H0, h, FirstDoor(e), e[1]) : e \in door_entries }
        ELSE {H0}

\* Human.attempt_exit_plan up to its call of get_random_target: the values hum
\* may have then (the target is left empty when the random target is needed)
attempt_exit_plan(H, h, vt) ==
    LET H0 == ClearTarget(H, h)
        exits == KnownExits(H, h)
        Length(pos) == Len(get_line(H[h].pos, pos))
        best == { pos \in exits : \A q \in exits : Length(pos) <= Length(q) }
        door_entries == { e \in vt : HasKind(e[2], "Door") }
        FirstDoor(e) == e[2][CHOOSE i \in 1..Len(e[2]) :
                               /\ Kind(e[2][i]) = "Door"
                               /\ \A j \in 1..(i - 1) : Kind(e[2][j]) # "Door"]
    IN  IF exits # {}
          THEN { SetTarget(H0, h, <<"FireExit", pos[1], pos[2], 0>>, pos) : pos \in best }
        ELSE IF door_entries # {}
          THEN { SetTarget(H0, h, FirstDoor(e), e[1]) : e \in door_entries }
        ELSE {H0}

\* the list traversable_pos of get_random_target
traversable_pos(H, G, h, allow_visited) ==
    LET known_pos == IF allow_visited THEN DOMAIN H[h].known_tiles
                     ELSE DOMAIN H[h].known_tiles \ H[h].visited_tiles
    IN  { pos \in known_pos : location_is_traversable(H, G, pos) }

\* the draws that end the loop of get_random_target
RandomTargets(H, G, h, allow_visited) ==
    { pos \in traversable_pos(H, G, h, allow_visited) :
        pos \in UNION graph /\ pos # H[h].pos }

\* the condition of the loop of get_random_target
NeedsTarget(H, h) == H[h].target_pos = NoPos \/ H[h].target_pos = H[h].pos

\* a verbal_collaboration that also makes the exit the planned target of the
\* Humans it informs
verbal_collaboration_overriding(H, h, target_location, vt) ==
    LET informed == { a \in Humans :
                        /\ H[a].mobility = "NORMAL"
                        /\ \E e \in vt : \E i \in 1..Len(e[2]) : e[2][i] = HumanObj(a) }
        Tell(k) == [ c \in DOMAIN k \cup {target_location} |->
                       IF c = target_location
                         THEN (IF c \in DOMAIN k THEN k[c] ELSE {}) \cup {"FireExit"}
                         ELSE k[c] ]
        H1 == [ a \in Humans |->
                  IF a \in informed
                    THEN [H[a] EXCEPT !.believes_alarm = TRUE,
                                      !.known_tiles = Tell(H[a].known_tiles),
                                      !.target_agent = <<"FireExit", target_location[1],
                                                         target_location[2], 0>>,
                                      !.target_pos = target_location]
                    ELSE H[a] ]
    IN  IF informed # {}
          THEN [H1 EXCEPT ![h].verbal_collaboration_count = @ + 1]
          ELSE H1

\* Human.verbal_collaboration: hum after it
verbal_collaboration(H, h, target_location, vt) ==
    LET informed == { a \in Humans :
                        /\ H[a].mobility = "NORMAL"
                        /\ \E e \in vt : \E i \in 1..Len(e[2]) : e[2][i] = HumanObj(a) }
        Tell(k) == [ c \in DOMAIN k \cup {target_location} |->
                       IF c = target_location
                         THEN (IF c \in DOMAIN k THEN k[c] ELSE {}) \cup {"FireExit"}
                         ELSE k[c] ]
        H1 == [ a \in Humans |->
                  IF a \in informed
                    THEN [H[a] EXCEPT !.believes_alarm = TRUE,
                                      !.known_tiles = Tell(H[a].known_tiles)]
                    ELSE H[a] ]
    IN  IF informed # {}
          THEN [H1 EXCEPT ![h].verbal_collaboration_count = @ + 1]
          ELSE H1

\* the inner loop of check_for_collaboration over the agents of one tile
RECURSIVE CollabAgents(_, _, _, _, _, _)
CollabAgents(H, h, location, agents, j, vt) ==
    IF j > Len(agents) THEN H
    ELSE LET agent == agents[j]
         IN  IF IsHuman(agent) /\ ~Truthy(H[h].planned_action)
               THEN IF H[agent[4]].mobility = "INCAPACITATED"
                      THEN [SetTarget(H, h, agent, location)
                              EXCEPT ![h].planned_action = PHYSICAL_SUPPORT]
                    ELSE IF H[agent[4]].mobility = "PANIC"
                      THEN [SetTarget(H, h, agent, location)
                              EXCEPT ![h].planned_action = MORALE_SUPPORT]
                    ELSE CollabAgents(H, h, location, agents, j + 1, vt)
             ELSE IF Kind(agent) = "FireExit"
               THEN CollabAgents(verbal_collaboration(H, h, location, vt), h,
                                 location, agents, j + 1, vt)
             ELSE CollabAgents(H, h, location, agents, j + 1, vt)

\* the outer loop of check_for_collaboration over visible_tiles, in one order
RECURSIVE CollabTiles(_, _, _, _, _)
CollabTiles(H, h, order, i, vt) ==
    IF i > Len(order) \/ Truthy(H[h].planned_action) THEN H
    ELSE CollabTiles(CollabAgents(H, h, order[i][1], order[i][2], 1, vt), h,
                     order, i + 1, vt)

\* the orders in which a set may be iterated
RECURSIVE Orders(_)
Orders(S) ==
    IF S = {} THEN { <<>> }
    ELSE UNION { { <<x>> \o o : o \in Orders(S \ {x}) } : x \in S }

\* the entries of visible_tiles on which the loops of check_for_collaboration
\* do anything: those with a fire exit or a Human that is not NORMAL
CollabEntries(H, vt) ==
    { e \in vt : \E i \in 1..Len(e[2]) :
                    \/ Kind(e[2][i]) = "FireExit"
                    \/ IsHuman(e[2][i]) /\ H[e[2][i][4]].mobility # "NORMAL" }

CollaborationCount(H, h) ==
    H[h].verbal_collaboration_count + H[h].morale_collaboration_count
    + H[h].physical_collaboration_count

\* check_for_collaboration without its test of self.carrying
check_for_collaboration_while_carrying(H, h, vt) ==
    {H} \cup
    (IF CollaborationCount(H, h) < MaxCollab
       THEN { CollabTiles(H, h, o, 1, vt) : o \in Orders(CollabEntries(H, vt)) }
       ELSE {})

\* Human.check_for_collaboration: the values hum may have after it
\* (test_collaboration draws a number that may fall on either side of the cost)
check_for_collaboration(H, h, vt) ==
    IF H[h].carrying # 0 THEN {H}
    ELSE {H} \cup
         (IF CollaborationCount(H, h) < MaxCollab
            THEN { CollabTiles(H, h, o, 1, vt) : o \in Orders(CollabEntries(H, vt)) }
            ELSE {})

\* ------------------------------------------------------- Human.step, part 2

\* the planning branch of step: attempt_exit_plan
ExitPlan(h) ==
    /\ ~aborted /\ cur = h /\ pc = "plan"
    /\ IF fire_started /\ hum[h].believes_alarm
         THEN IF Kind(hum[h].target_agent) # "FireExit"
                 /\ ~Truthy(hum[h].planned_action)
                THEN /\ hum' \in attempt_exit_plan(hum, h, visible_tiles(h))
                     /\ pc' = IF hum'[h].target_pos = NoPos THEN "random_unvisited"
                                                           ELSE "collab"
                ELSE hum' = hum /\ pc' = "collab"
         ELSE hum' = hum /\ pc' = "target"
    /\ UNCHANGED << call, floor, graph, fire_probability, fire_started, running, grid, smoke,
                    todo, in_tick, cur, aborted >>

\* one pass of the loop of get_random_target (allow_visited is False in
\* attempt_exit_plan and True in step): np.random.choice raises on an empty
\* list, a draw that is no graph node or is the own cell changes nothing
GetRandomTarget(h) ==
    /\ ~aborted /\ cur = h /\ pc \in {"random_unvisited", "random_any"}
    /\ LET allow_visited == (pc = "random_any")
           next == IF pc = "random_any" THEN "move" ELSE "collab"
       IN  IF ~NeedsTarget(hum, h)
             THEN pc' = next /\ UNCHANGED << hum, aborted >>
           ELSE IF traversable_pos(hum, grid, h, allow_visited) = {}
             THEN aborted' = TRUE /\ UNCHANGED << hum, pc >>
           ELSE \E target_pos \in traversable_pos(hum, grid, h, allow_visited) :
                  IF target_pos \in UNION graph /\ target_pos # hum[h].pos
                    THEN /\ hum' = SetTarget(hum, h, NoObj, target_pos)
                         /\ pc' = next
                         /\ UNCHANGED aborted
                    ELSE UNCHANGED << hum, pc, aborted >>
    /\ UNCHANGED << call, floor, graph, fire_probability, fire_started, running, grid, smoke,
                    todo, in_tick, cur >>

\* the planning branch of step: check_for_collaboration
Collaborate(h) ==
    /\ ~aborted /\ cur = h /\ pc = "collab"
    /\ IF hum[h].mobility = "NORMAL" /\ hum[h].collaborates
         THEN hum' \in check_for_collaboration(hum, h, visible_tiles(h))
         ELSE hum' = hum
    /\ pc' = "target"
    /\ UNCHANGED << call, floor, graph, fire_probability, fire_started, running, grid, smoke,
                    todo, in_tick, cur, aborted >>

\* the step with the lines that step has as a comment (agent.py:1070-1075):
\* a panicking Human that does not faint gives up its plan and draws a random
\* target
ChooseTargetMovingRandomly(h) ==
    /\ ~aborted /\ cur = h /\ pc = "target"
    /\ IF hum[h].target_pos = NoPos
         THEN pc' = "random_any" /\ UNCHANGED << hum, cur >>
       ELSE IF hum[h].mobility = "PANIC"
         THEN \/ /\ get_panic_score(hum, h) > FAINT_THRESHOLD
                 /\ hum' = incapacitate(hum, h) /\ cur' = 0 /\ pc' = "done"
              \/ hum' = ClearPlan(hum, h) /\ pc' = "random_any" /\ UNCHANGED cur
       ELSE pc' = "move" /\ UNCHANGED << hum, cur >>
    /\ UNCHANGED << call, floor, graph, fire_probability, fire_started, running, grid, smoke,
                    todo, in_tick, aborted >>

\* step between planning and movement: a random target when there is none,
\* else the faint test of a panicking Human
ChooseTarget(h) ==
    /\ ~aborted /\ cur = h /\ pc = "target"
    /\ IF hum[h].target_pos = NoPos
         THEN pc' = "random_any" /\ UNCHANGED << hum, cur >>
       ELSE IF hum[h].mobility = "PANIC" /\ get_panic_score(hum, h) > FAINT_THRESHOLD
         THEN \/ hum' = incapacitate(hum, h) /\ cur' = 0 /\ pc' = "done"
              \/ pc' = "move" /\ UNCHANGED << hum, cur >>
       ELSE pc' = "move" /\ UNCHANGED << hum, cur >>
    /\ UNCHANGED << call, floor, graph, fire_probability, fire_started, running, grid, smoke,
                    todo, in_tick, aborted >>

\* ------------------------------------------------------- Human: movement

\* int(np.round(self.speed)): to the nearest integer, a half to the even one
speed_int(speed) ==
    LET q == speed \div 10
        r == speed % 10
    IN  IF r < 5 THEN q
        ELSE IF r > 5 THEN q + 1
        ELSE IF q % 2 = 0 THEN q ELSE q + 1

\* a Human that forgets that the path begins with its own cell
get_next_location_from_own_cell(H, h, path) ==
    LET path_length == Len(path)
        s == speed_int(H[h].speed)
        i == IF path_length <= s THEN path_length ELSE s
    IN  << path[i], SubSeq(path, 1, i) >>

\* Human.get_next_location: <<next_location, next_path>>
get_next_location(H, h, path) ==
    LET path_length == Len(path)
        s == speed_int(H[h].speed)
        i == IF path_length <= s THEN path_length ELSE s + 1
    IN  << path[i], SubSeq(path, 1, i) >>

\* a get_path that returns the empty path whenever a node is missing
get_path_never_raises(nodes, H, h, target) == FALSE

\* Human.get_path raises: the own position is no node of the working graph
\* while the target is one
get_path_raises(nodes, H, h, target) ==
    target \in nodes /\ H[h].pos \notin nodes

\* Human.get_path: the paths it may return (the empty path when the target is
\* no node of the working graph or cannot be reached)
get_path(fp, nodes, H, h, target, include_target, vt) ==
    LET found == ShortestPaths(fp, nodes, H[h].pos, target)
    IN  IF found = {} THEN { <<>> }
        ELSE IF target \in VisiblePositions(vt) \/ include_target THEN found
        ELSE { SubSeq(path, 1, Len(path) - 1) : path \in found }

\* Human.get_retreat_location
get_retreat_location(H, h, next_location) ==
    << H[h].pos[1] + (H[h].pos[1] - next_location[1]),
       H[h].pos[2] + (H[h].pos[2] - next_location[2]) >>

\* the test of Human.check_retreat: a danger on the visible part of next_path
retreats(H, G, h, next_path, vt) ==
    \E visible_pos \in VisiblePositions(vt) \cap SeqToSet(next_path) :
        \E i \in 1..Len(G[visible_pos]) :
            \/ Kind(G[visible_pos][i]) = "Smoke" /\ ~Truthy(H[h].planned_action)
            \/ Kind(G[visible_pos][i]) = "Fire"

\* Human.check_retreat when it returns True: hum after it (get_random_target
\* is called with a target that is set and is not the own cell, and returns
\* at once)
check_retreat(fp, H, G, h, next_location) ==
    LET retreat_location == get_retreat_location(H, h, next_location)
        surrounded == \/ out_of_bounds(fp, retreat_location)
                      \/ HasKind(G[retreat_location], "Smoke")
                      \/ HasKind(G[retreat_location], "Fire")
        H1 == IF surrounded THEN H ELSE SetTarget(H, h, NoObj, retreat_location)
    IN  [H1 EXCEPT ![h].planned_action = RETREAT]

\* Human.update_target
update_target(H, h) ==
    LET planned_agent == H[h].target_agent
        current_pos == get_position(H, planned_agent)
    IN  IF planned_agent = NoObj THEN H
        ELSE IF current_pos # NoPos /\ current_pos # H[h].target_pos
          THEN SetTarget(H, h, planned_agent, current_pos)
        ELSE IF current_pos = NoPos THEN ClearPlan(H, h)
        ELSE H

\* Human.update_action: the branches after "if planned_agent:" belong to that
\* test, so they are taken only without a planned agent
update_action(H, h) ==
    LET planned_agent == H[h].target_agent
        a == planned_agent[4]
    IN  IF planned_agent # NoObj
          THEN IF /\ H[h].planned_action = MORALE_SUPPORT
                  /\ (H[a].mobility # "PANIC" \/ get_status(H, a) # "ALIVE")
                 THEN ClearPlan(H, h)
                 ELSE H
        ELSE IF H[h].planned_action = RETREAT THEN H
        ELSE ClearPlan(H, h)

\* update_action raises: a physical support is tested on a planned agent
\* that is None
update_action_raises(H, h) ==
    H[h].target_agent = NoObj /\ H[h].planned_action = PHYSICAL_SUPPORT

\* Human.attempt_morale_boost on Human a: the values hum may have after it
\* (the draw is below experience / MAX_EXPERIENCE or not)
attempt_morale_boost(H, a, experience) ==
    (IF experience > 0
       THEN { [H EXCEPT ![a].morale_boost = TRUE, ![a].mobility = "NORMAL"] }
       ELSE {})
    \cup (IF experience < MAX_EXPERIENCE THEN {H} ELSE {})

\* Human.perform_action: the values hum may have after it
perform_action(H, h) ==
    LET a == H[h].target_agent[4]
        done == IF H[h].planned_action = PHYSICAL_SUPPORT
                  THEN IF ~H[a].carried
                         THEN { [H EXCEPT ![h].carrying = a,
                                          ![a].carried = TRUE,
                                          ![h].physical_collaboration_count = @ + 1] }
                         ELSE {H}
                ELSE IF H[h].planned_action = MORALE_SUPPORT
                  THEN { [H1 EXCEPT ![h].morale_collaboration_count = @ + 1] :
                         H1 \in attempt_morale_boost(H, a, H[h].experience) }
                ELSE {H}
    IN  { [H1 EXCEPT ![h].planned_action = NoAction] : H1 \in done }

\* a push damage drawn from the reals of 0.01 to 1.0: its least and greatest
PushDamagesUniform == { 2, MAX_HEALTH }

\* np.random.randint(MIN_PUSH_DAMAGE, MAX_PUSH_DAMAGE): the integers from the
\* lower bound up to, not including, the upper one, in units of health
PushDamages == { d * MAX_HEALTH : d \in MIN_PUSH_DAMAGE..(MAX_PUSH_DAMAGE - 1) }

\* Human.push_human_agent on Human a: the <<hum, grid>> it may leave
push_human_agent(fp, H, G, a) ==
    LET neighborhood == get_neighborhood(fp, H[a].pos, TRUE, FALSE, 1)
        traversable_neighborhood ==
            { neighborhood[i] : i \in { j \in 1..Len(neighborhood) :
                                  location_is_traversable(H, G, neighborhood[j]) } }
    IN  IF traversable_neighborhood = {} THEN { <<H, G>> }
        ELSE { LET r == move_agent(H, G, a, push_pos)
               IN  << [r[1] EXCEPT ![a].health = @ - damage], r[2] >> :
               push_pos \in traversable_neighborhood, damage \in PushDamages }

\* the Human h's own move of move_toward_target: <<hum, grid>> after it
step_to(H, G, h, next_location) ==
    LET r == move_agent(H, G, h, next_location)
    IN  << [r[1] EXCEPT ![h].visited_tiles = @ \cup {next_location}], r[2] >>

\* a normal move that leaves the carried agent where it is
carry_along_left_behind(H, G, h) ==
    LET a == H[h].carrying
    IN  IF a = 0 THEN <<H, G, FALSE>>
        ELSE IF get_status(H, a) = "DEAD" THEN <<stop_carrying(H, h), G, FALSE>>
        ELSE <<H, G, FALSE>>

\* the carried agent follows a normal move: <<hum, grid, raised>>
carry_along(H, G, h) ==
    LET a == H[h].carrying
    IN  IF a = 0 THEN <<H, G, FALSE>>
        ELSE IF get_status(H, a) = "DEAD" THEN <<stop_carrying(H, h), G, FALSE>>
        ELSE IF H[a].pos = NoPos THEN <<H, G, TRUE>>
        ELSE LET r == move_agent(H, G, a, H[h].pos) IN <<r[1], r[2], FALSE>>

\* the Human that h pushes off a blocked next_location: 0 when there is none
pushed_agent(H, G, h, next_location) ==
    LET contents == G[next_location]
        pushes == \/ /\ get_panic_score(H, h) >= PANIC_THRESHOLD
                     /\ H[h].mobility = "NORMAL"
                  \/ H[h].mobility = "PANIC"
        Pushable(i) == /\ IsHuman(contents[i])
                       /\ H[contents[i][4]].mobility # "INCAPACITATED"
    IN  IF pushes /\ \E i \in 1..Len(contents) : Pushable(i)
          THEN contents[CHOOSE i \in 1..Len(contents) :
                          Pushable(i) /\ \A j \in 1..(i - 1) : ~Pushable(j)][4]
          ELSE 0

\* the while loop of move_toward_target on the working graph of the nodes not
\* yet pruned: the <<hum, grid, raised, nodes>> it may end with, nodes being
\* the nodes left in the working graph
RECURSIVE MoveLoop(_, _, _, _, _, _)
MoveLoop(fp, nodes, H, G, h, vt) ==
    LET target == H[h].target_pos
        include_target == location_is_traversable(H, G, target)
        Outcome(path) ==
            IF Len(path) = 0 THEN { <<ClearPlan(H, h), G, FALSE, nodes>> }
            ELSE LET nl == get_next_location(H, h, path)
                     next_location == nl[1]
                     next_path == nl[2]
                     a == pushed_agent(H, G, h, next_location)
                 IN  IF next_location = H[h].pos THEN { <<H, G, FALSE, nodes>> }
                     ELSE IF retreats(H, G, h, next_path, vt)
                       THEN { <<check_retreat(fp, H, G, h, next_location), G, FALSE,
                                nodes>> }
                     ELSE IF location_is_traversable(H, G, next_location)
                       THEN LET r == step_to(H, G, h, next_location)
                                c == carry_along(r[1], r[2], h)
                            IN  { <<c[1], c[2], c[3], nodes>> }
                     ELSE IF H[h].pos = path[Len(path)]
                       THEN { <<ClearPlan(H1, h), G, FALSE, nodes>> :
                              H1 \in IF Truthy(H[h].planned_action)
                                       THEN perform_action(H, h) ELSE {H} }
                     ELSE IF a # 0
                       THEN { LET r == step_to(p[1], p[2], h, next_location)
                              IN  <<r[1], r[2], FALSE, nodes>> :
                              p \in push_human_agent(fp, H, G, a) }
                     ELSE IF next_location = path[Len(path)]
                       THEN { <<ClearPlan(H, h), G, FALSE, nodes \ {next_location}>> }
                     ELSE MoveLoop(fp, nodes \ {next_location}, H, G, h, vt)
    IN  IF target = NoPos THEN { <<H, G, FALSE, nodes>> }
        ELSE IF get_path_raises(nodes, H, h, target) THEN { <<H, G, TRUE, nodes>> }
        ELSE UNION { Outcome(path) :
                     path \in get_path(fp, nodes, H, h, target, include_target, vt) }

\* move_toward_target on graph, its deepcopy of model.graph: the
\* <<hum, grid, raised, nodes>> it may end with, nodes being the nodes the
\* loop has left in the copy
pathing(fp, model_graph, H, G, h, vt) ==
    LET H1 == update_target(H, h)
    IN  IF Truthy(H1[h].planned_action) /\ update_action_raises(H1, h)
          THEN { <<H1, G, TRUE, UNION model_graph>> }
        ELSE MoveLoop(fp, UNION model_graph,
                      IF Truthy(H1[h].planned_action) THEN update_action(H1, h) ELSE H1,
                      G, h, vt)

\* move_toward_target that prunes model.graph itself, not a copy, and does not
\* add the pruned edges back
move_toward_target_in_place(fp, model_graph, H, G, h, vt) ==
    { << r[1], r[2], r[3], { e \in model_graph : e \subseteq r[4] } >> :
      r \in pathing(fp, model_graph, H, G, h, vt) }

\* Human.move_toward_target: the <<hum, grid, raised, model.graph>> it may end
\* with.  The pruned edges are added back to the copy, model.graph is not
\* written
move_toward_target(fp, model_graph, H, G, h, vt) ==
    { << r[1], r[2], r[3], model_graph >> :
      r \in pathing(fp, model_graph, H, G, h, vt) }

\* ------------------------------------------------------- Human.step, part 3

\* the call of move_toward_target in step
Move(h) ==
    /\ ~aborted /\ cur = h /\ pc = "move"
    /\ \E r \in move_toward_target(floor, graph, hum, grid, h, visible_tiles(h)) :
          /\ hum' = r[1]
          /\ grid' = r[2]
          /\ aborted' = r[3]
          /\ graph' = r[4]
    /\ pc' = "escape"
    /\ UNCHANGED << floor, fire_probability, fire_started, running, smoke, todo,
                    in_tick, cur >>

MoveTowardTarget(h) == Move(h) /\ UNCHANGED call

\* an escape that leaves the carried agent behind
escape_alone(H, G, h) ==
    << [H EXCEPT ![h].escaped = TRUE, ![h].pos = NoPos],
       remove_agent(G, HumanObj(h), H[h].pos) >>

\* the escape at the end of step, for a carried agent that is on the grid:
\* <<hum, grid>> after it
escape(H, G, h) ==
    LET a == H[h].carrying
        H1 == IF a # 0 THEN [H EXCEPT ![a].escaped = TRUE, ![a].pos = NoPos]
                       ELSE H
        G1 == IF a # 0 /\ H[a].pos # NoPos
                THEN remove_agent(G, HumanObj(a), H[a].pos)
                ELSE G
    IN  << [H1 EXCEPT ![h].escaped = TRUE, ![h].pos = NoPos],
           remove_agent(G1, HumanObj(h), H[h].pos) >>

\* the end of step: a Human on a fire exit leaves, with the agent it carries.
\* grid.remove_agent of a carried agent that has no position any more (it
\* died while it was carried) either raises or does nothing, by the version
\* of the grid library
Escape(h) ==
    /\ ~aborted /\ cur = h /\ pc = "escape"
    /\ IF fire_started /\ hum[h].pos \in fire_exits(floor)
         THEN LET a == hum[h].carrying
                  gone == a # 0 /\ hum[a].pos = NoPos
              IN  \/ /\ hum' = escape(hum, grid, h)[1]
                     /\ grid' = escape(hum, grid, h)[2]
                     /\ cur' = 0 /\ pc' = "done"
                     /\ UNCHANGED aborted
                  \/ /\ gone
                     /\ hum' = [hum EXCEPT ![a].escaped = TRUE]
                     /\ aborted' = TRUE
                     /\ UNCHANGED << grid, cur, pc >>
         ELSE /\ cur' = 0 /\ pc' = "done"
              /\ UNCHANGED << hum, grid, aborted >>
    /\ UNCHANGED << call, floor, graph, fire_probability, fire_started, running, smoke, todo,
                    in_tick >>

\* a call of Human.perform_action by a Human that has planned a collaboration
\* with another Human (no run of step reaches the call in move_toward_target)
PerformAction(h) ==
    /\ ~aborted /\ cur = h /\ pc = "move"
    /\ IsHuman(hum[h].target_agent)
    /\ hum[h].planned_action \in {PHYSICAL_SUPPORT, MORALE_SUPPORT}
    /\ CollaborationCount(hum, h) < MaxCollab
    /\ hum' \in perform_action(hum, h)
    /\ UNCHANGED << call, floor, graph, fire_probability, fire_started, running, grid, smoke,
                    todo, in_tick, cur, pc, aborted >>

\* ------------------------------------------------------------ construction

\* the attributes FireEvacuation.__init__ draws for the Humans, in the order
\* of their creation: <<health, speed, vision, nervousness, experience>>
Personas ==
    << <<150, 20, 1, 1, 10>>,
       <<200, 10, 3, 10, 1>> >>

PersonaOf(h) == Personas[((h - 1) % Len(Personas)) + 1]

\* the draws of believes_alarm for Human h
Beliefs(h) == IF h = 1 THEN BOOLEAN ELSE {TRUE}

\* the values of fire_probability, in percent
FireProbabilities == {0, 50}

\* Human.__init__
NewHuman(pos, persona, collaborates, believes_alarm) ==
    [ pos |-> pos, health |-> persona[1], speed |-> persona[2],
      vision |-> persona[3], nervousness |-> persona[4],
      experience |-> persona[5], collaborates |-> collaborates,
      believes_alarm |-> believes_alarm, mobility |-> "NORMAL",
      shock |-> MIN_SHOCK, traversable |-> FALSE,
      verbal_collaboration_count |-> 0, morale_collaboration_count |-> 0,
      physical_collaboration_count |-> 0,
      morale_boost |-> FALSE, carried |-> FALSE, carrying |-> 0,
      knowledge |-> MIN_KNOWLEDGE, escaped |-> FALSE,
      target_agent |-> NoObj, target_pos |-> NoPos, planned_action |-> NoAction,
      known_tiles |-> NoTiles, visited_tiles |-> {pos}, scheduled |-> TRUE ]

\* the grid after the loader has placed the floor objects
LoadedGrid(fp) ==
    [ c \in Cells(fp) |-> IF FloorObject(fp, c) = NoObj THEN <<>>
                          ELSE << FloorObject(fp, c) >> ]

\* the grid after the Humans were placed
RECURSIVE PlaceHumans(_, _, _)
PlaceHumans(G, H, h) ==
    IF h > NumHumans THEN G
    ELSE PlaceHumans(place_agent(G, HumanObj(h), H[h].pos), H, h + 1)

\* FireEvacuation.__init__: with random_spawn every Human on a cell that
\* grid.find_empty found empty, else on a spawn point that random.choice drew;
\* the first number_collaborators Humans collaborate
Init ==
    /\ floor \in PlanIds
    /\ graph = GraphEdges(floor)
    /\ fire_probability \in FireProbabilities
    /\ fire_started = FALSE
    /\ running = TRUE
    /\ \E pos \in [ Humans -> Cells(floor) ] :
         \E believes_alarm \in [ Humans -> BOOLEAN ] :
            /\ \A h \in Humans : believes_alarm[h] \in Beliefs(h)
            /\ IF random_spawn(floor)
                 THEN /\ \A h \in Humans : IsOpen(floor, pos[h])
                      /\ \A h1, h2 \in Humans : h1 # h2 => pos[h1] # pos[h2]
                 ELSE \A h \in Humans : pos[h] \in spawn_pos_list(floor)
            /\ hum = [ h \in Humans |->
                         NewHuman(pos[h], PersonaOf(h), h <= number_collaborators,
                                  believes_alarm[h]) ]
    /\ grid = PlaceHumans(LoadedGrid(floor), hum, 1)
    /\ smoke = [ c \in Cells(floor) |-> <<>> ]
    /\ todo = {}
    /\ in_tick = FALSE
    /\ cur = 0
    /\ pc = "done"
    /\ aborted = FALSE
    /\ call = NoCall

Next ==
    \/ TickBegin
    \/ \E f \in todo : FireStep(f)
    \/ \E s \in todo : SmokeStep(s)
    \/ \E h \in Humans : HealthMobilityRules(h)
    \/ \E h \in Humans : PanicRules(h)
    \/ \E h \in Humans : LearnEnvironment(h)
    \/ \E h \in Humans : ExitPlan(h)
    \/ \E h \in Humans : GetRandomTarget(h)
    \/ \E h \in Humans : Collaborate(h)
    \/ \E h \in Humans : ChooseTarget(h)
    \/ \E h \in Humans : MoveTowardTarget(h)
    \/ \E h \in Humans : Escape(h)
    \/ TickEnd

Spec == Init /\ [][Next]_vars

\* the runs in which perform_action is called as well
CallNext == Next \/ \E h \in Humans : PerformAction(h)

CallSpec == Init /\ [][CallNext]_vars

\* the positions of a Human's step
Phases ==
    { "panic", "learn", "plan", "random_unvisited", "collab", "target",
      "random_any", "move", "escape", "done" }

\* where the run stands: the position in the step under way, the agents the
\* schedule has yet to step in this tick, and whether a tick is under way
progress == << pc, todo, in_tick >>

\* progress of the straight-line code: a step under way reaches its next
\* position, the schedule steps its next agent, the driver begins or ends a
\* tick.  (The loop of get_random_target is left out: it has its own
\* fairness below.)
Advance ==
    /\ running /\ ~aborted
    /\ \/ /\ cur # 0
          /\ pc \notin {"random_unvisited", "random_any"}
          /\ pc' \in Phases /\ pc' # pc
          /\ UNCHANGED << todo, in_tick >>
       \/ /\ cur = 0 /\ in_tick /\ todo # {}
          /\ todo' \in { todo \ {o} : o \in todo }
          /\ pc' \in Phases
          /\ UNCHANGED in_tick
       \/ /\ cur = 0 /\ ~in_tick
          /\ in_tick' = TRUE
          /\ todo' = { HumanObj(h) : h \in { k \in Humans : hum[k].scheduled } }
                      \cup { o \in AllObjects(grid) : Kind(o) \in {"Fire", "Smoke"} }
          /\ UNCHANGED pc
       \/ /\ cur = 0 /\ in_tick /\ todo = {}
          /\ in_tick' = FALSE
          /\ UNCHANGED << pc, todo >>

\* the runs of a driver that keeps calling FireEvacuation.step while running
\* is set: straight-line code runs on, and the loop of get_random_target ends
\* when a draw that ends it exists
FairSpec ==
    /\ Spec
    /\ WF_progress(Advance)
    /\ \A h \in Humans : WF_vars(GetRandomTarget(h))

\* ------------------------------------------- functions called on their own

\* the state of a model that is not run while a function is called
Parked ==
    /\ graph = {}
    /\ fire_probability = 0
    /\ fire_started = FALSE
    /\ running = FALSE
    /\ smoke = << >>
    /\ hum = << >>
    /\ todo = {}
    /\ in_tick = FALSE
    /\ cur = 0
    /\ pc = "done"
    /\ aborted = FALSE

\* the cells get_line is called with
LineCells == (0..MaxCoord) \X (0..MaxCoord)

\* get_line is about to be called from start to end and from end to start
LineInit ==
    /\ Parked
    /\ floor = 1
    /\ grid = << >>
    /\ \E a \in LineCells : \E b \in LineCells :
          call = [ op |-> "get_line", start |-> a, end |-> b,
                   forth |-> << >>, back |-> << >>, done |-> FALSE ]

\* the two calls of get_line
GetLine ==
    /\ call.op = "get_line" /\ ~call.done
    /\ call' = [call EXCEPT !.forth = get_line(call.start, call.end),
                            !.back = get_line(call.end, call.start),
                            !.done = TRUE]
    /\ UNCHANGED << floor, graph, fire_probability, fire_started, running, grid,
                    smoke, hum, todo, in_tick, cur, pc, aborted >>

LineSpec == LineInit /\ [][GetLine]_vars

\* a Wall as the loader makes it
WallAt(c) == <<"Wall", c[1], c[2], 0>>

\* a call of get_visible_tiles that is to be made on the grid as it is, and
\* again after the grid has changed
Looking(pos, vision) ==
    [ op |-> "get_visible_tiles", pos |-> pos, vision |-> vision, step |-> 0,
      before |-> {}, change |-> <<"none">>, seen |-> {} ]

\* a Human stands in the hall, which has one Wall at most
WallInit ==
    /\ Parked
    /\ floor = Hall
    /\ \E pos \in Cells(Hall) : \E vision \in 1..MaxVision :
          /\ call = Looking(pos, vision)
          /\ \E walls \in { {} } \cup { {c} : c \in Cells(Hall) \ {pos} } :
                grid = [ c \in Cells(Hall) |->
                           IF c = pos THEN << HumanObj(1) >>
                           ELSE IF c \in walls THEN << WallAt(c) >>
                           ELSE << >> ]

\* get_visible_tiles is called, for the first or the second time
Look ==
    /\ call.op = "get_visible_tiles" /\ call.step \in {0, 2}
    /\ LET vt == get_visible_tiles(floor, grid, call.pos, call.vision)
       IN  call' = IF call.step = 0
                     THEN [call EXCEPT !.before = vt, !.step = 1]
                     ELSE [call EXCEPT !.seen = vt, !.step = 3]
    /\ UNCHANGED << floor, graph, fire_probability, fire_started, running, grid,
                    smoke, hum, todo, in_tick, cur, pc, aborted >>

\* between the two calls a Wall is added to a cell that has none
PlaceWall(w) ==
    /\ call.op = "get_visible_tiles" /\ call.step = 1
    /\ w # call.pos /\ ~HasKind(grid[w], "Wall")
    /\ grid' = place_agent(grid, WallAt(w), w)
    /\ call' = [call EXCEPT !.change = <<"wall", w>>, !.step = 2]
    /\ UNCHANGED << floor, graph, fire_probability, fire_started, running,
                    smoke, hum, todo, in_tick, cur, pc, aborted >>

WallSpec == WallInit /\ [][Look \/ \E w \in Cells(Hall) : PlaceWall(w)]_vars

\* the sets of n cells at most
RECURSIVE CellSets(_, _)
CellSets(cells, n) ==
    IF n = 0 THEN { {} }
    ELSE LET less == CellSets(cells, n - 1)
         IN  less \cup { S \cup {c} : S \in less, c \in cells }

\* a Human stands in the hall, in which Smoke lies on MaxSmoke cells at most
\* and one of these may have Furniture under the Smoke
SmokeInit ==
    /\ Parked
    /\ floor = Hall
    /\ \E pos \in Cells(Hall) : \E vision \in 1..MaxVision :
          /\ call = Looking(pos, vision)
          /\ \E smokes \in CellSets(Cells(Hall) \ {pos}, MaxSmoke) :
               \E furnished \in { {} } \cup { {c} : c \in smokes } :
                grid = [ c \in Cells(Hall) |->
                           IF c = pos THEN << HumanObj(1) >>
                           ELSE IF c \in furnished
                             THEN << <<"Smoke", c[1], c[2], 1>>,
                                     <<"Furniture", c[1], c[2], 0>> >>
                           ELSE IF c \in smokes THEN << <<"Smoke", c[1], c[2], 1>> >>
                           ELSE << >> ]

\* between the two calls the objects of a cell come to lie in the other
\* order (the Smoke has reached the cell before the other object, or after)
Reorder(c) ==
    /\ call.op = "get_visible_tiles" /\ call.step = 1
    /\ Len(grid[c]) > 1
    /\ grid' = [grid EXCEPT ![c] = Reverse(@)]
    /\ call' = [call EXCEPT !.change = <<"order", c>>, !.step = 2]
    /\ UNCHANGED << floor, graph, fire_probability, fire_started, running,
                    smoke, hum, todo, in_tick, cur, pc, aborted >>

SmokeSpec == SmokeInit /\ [][Look \/ \E c \in Cells(Hall) : Reorder(c)]_vars

\* ------------------------------------------------ the runs of one Human

\* FireEvacuation.__init__ with human_count = 1 on a corridor plan: a Human
\* of speed 1 and vision 4 on a spawn point (the other Humans of the model are
\* not created).  call holds the count of the ticks that began with the fire
\* started, the x of the Human when the fire started, and of the latest call
\* of move_toward_target the cell and the target of the Human and whether
\* get_path found no path
ScenarioInit ==
    /\ floor \in {Corridor, CutCorridor, TwoExits, Doorway}
    /\ graph = GraphEdges(floor)
    /\ fire_probability = 50
    /\ fire_started = FALSE
    /\ running = TRUE
    /\ \E pos \in spawn_pos_list(floor) :
         \E believes_alarm \in BOOLEAN :
            LET persona == <<200, 10, 4, 5, 5>>
                created == NewHuman(pos, persona, FALSE, believes_alarm)
                absent  == [ NewHuman(NoPos, persona, FALSE, FALSE)
                               EXCEPT !.scheduled = FALSE ]
            IN  /\ hum = [ h \in Humans |-> IF h = 1 THEN created ELSE absent ]
                /\ grid = place_agent(LoadedGrid(floor), HumanObj(1), pos)
    /\ smoke = [ c \in Cells(floor) |-> <<>> ]
    /\ todo = {}
    /\ in_tick = FALSE
    /\ cur = 0
    /\ pc = "done"
    /\ aborted = FALSE
    /\ call = [ op |-> "scenario", ticks |-> 0, from |-> -1,
                no_path |-> FALSE, pos |-> NoPos, target |-> NoPos ]

\* the end of a tick, counted
CountedTickEnd ==
    /\ EndOfTick
    /\ call' = IF fire_started
                 THEN [call EXCEPT !.ticks = Min(@ + 1, MaxTicks)]
               ELSE IF fire_started'
                 THEN [call EXCEPT !.ticks = 0, !.from = hum[1].pos[1]]
               ELSE call

\* the call of move_toward_target in step, noted: no path when the first call
\* of get_path returns the empty path
NotedMove(h) ==
    /\ Move(h)
    /\ LET target == hum[h].target_pos
           include_target == location_is_traversable(hum, grid, target)
       IN  call' = [call EXCEPT
                      !.pos = hum[h].pos,
                      !.target = target,
                      !.no_path =
                         /\ target # NoPos
                         /\ ~IsHuman(hum[h].target_agent)
                         /\ ~get_path_raises(UNION graph, hum, h, target)
                         /\ get_path(floor, UNION graph, hum, h, target,
                                     include_target, visible_tiles(h)) = { <<>> }]

ScenarioNext ==
    \/ TickBegin
    \/ \E f \in todo : FireStep(f)
    \/ \E s \in todo : SmokeStep(s)
    \/ \E h \in Humans : HealthMobilityRules(h)
    \/ \E h \in Humans : PanicRules(h)
    \/ \E h \in Humans : LearnEnvironment(h)
    \/ \E h \in Humans : ExitPlan(h)
    \/ \E h \in Humans : GetRandomTarget(h)
    \/ \E h \in Humans : Collaborate(h)
    \/ \E h \in Humans : ChooseTarget(h)
    \/ \E h \in Humans : NotedMove(h)
    \/ \E h \in Humans : Escape(h)
    \/ CountedTickEnd

ScenarioSpec == ScenarioInit /\ [][ScenarioNext]_vars

\* --------------------------------- move_toward_target on a working graph

\* a pass of the while loop of move_toward_target called on its own: one
\* Human of vision 4 on an open cell of the plan, a target cell, and the nodes
\* that the working graph holds
PathInit ==
    /\ floor \in {1, CutCorridor}
    /\ graph = GraphEdges(floor)
    /\ fire_probability = 0
    /\ fire_started = FALSE
    /\ running = FALSE
    /\ \E pos \in { c \in Cells(floor) : IsOpen(floor, c) } :
         \E target \in Cells(floor) :
            \E nodes \in SUBSET GraphNodes(floor) :
               LET persona == <<200, 10, 4, 5, 5>>
                   created == NewHuman(pos, persona, FALSE, TRUE)
                   absent  == [ NewHuman(NoPos, persona, FALSE, FALSE)
                                  EXCEPT !.scheduled = FALSE ]
                   H == [ h \in Humans |-> IF h = 1 THEN created ELSE absent ]
               IN  /\ hum = SetTarget(H, 1, NoObj, target)
                   /\ grid = place_agent(LoadedGrid(floor), HumanObj(1), pos)
                   /\ call = [ op |-> "move_toward_target", nodes |-> nodes,
                               pos |-> pos, target |-> target, done |-> FALSE ]
    /\ smoke = [ c \in Cells(floor) |-> <<>> ]
    /\ todo = {}
    /\ in_tick = FALSE
    /\ cur = 0
    /\ pc = "done"
    /\ aborted = FALSE

Pathing ==
    /\ call.op = "move_toward_target" /\ ~call.done
    /\ \E r \in MoveLoop(floor, call.nodes, hum, grid, 1, visible_tiles(1)) :
          /\ hum' = r[1]
          /\ grid' = r[2]
          /\ aborted' = r[3]
    /\ call' = [call EXCEPT !.done = TRUE]
    /\ UNCHANGED << floor, graph, fire_probability, fire_started, running, smoke,
                    todo, in_tick, cur, pc >>

PathSpec == PathInit /\ [][Pathing]_vars

\* ------------------------------------------------- the parallel scheduler

\* pool.map that returns at once, as pool.amap does
map_returns_at_once(queue, at_work) == TRUE

\* pool.map returns: every agent it was given has been stepped
map_returns(queue, at_work) == queue = {} /\ at_work = {}

\* MultithreadedRandomActivation on its own, with the Humans and one more
\* agent in self.agents: call holds steps and time, the agents that the pool
\* has not yet handed to a worker (queue), and the <<agent, steps>> of the
\* agent steps that workers are running (at_work), steps being the counter
\* when the step was dispatched
PoolInit ==
    /\ Parked
    /\ floor = 1
    /\ grid = << >>
    /\ call = [ op |-> "pool", steps |-> 0, time |-> 0, in_step |-> FALSE,
                queue |-> {}, at_work |-> {} ]

PoolNext ==
    \/ \* step is called: shuffle, pool.map is given self.agents
       /\ call.op = "pool" /\ ~call.in_step /\ call.steps < MaxTicks
       /\ call' = [call EXCEPT !.in_step = TRUE, !.queue = 1..(NumHumans + 1)]
       /\ UNCHANGED << floor, graph, fire_probability, fire_started, running, grid,
                       smoke, hum, todo, in_tick, cur, pc, aborted >>
    \/ \* a free worker takes an agent and calls agent_step
       /\ call.op = "pool" /\ Cardinality(call.at_work) < PoolWorkers
       /\ \E a \in call.queue :
             call' = [call EXCEPT !.queue = @ \ {a},
                                  !.at_work = @ \cup { <<a, call.steps>> }]
       /\ UNCHANGED << floor, graph, fire_probability, fire_started, running, grid,
                       smoke, hum, todo, in_tick, cur, pc, aborted >>
    \/ \* an agent's step returns
       /\ call.op = "pool"
       /\ \E t \in call.at_work : call' = [call EXCEPT !.at_work = @ \ {t}]
       /\ UNCHANGED << floor, graph, fire_probability, fire_started, running, grid,
                       smoke, hum, todo, in_tick, cur, pc, aborted >>
    \/ \* pool.map has returned: pool.close(), steps += 1, time += 1
       /\ call.op = "pool" /\ call.in_step
       /\ map_returns(call.queue, call.at_work)
       /\ call' = [call EXCEPT !.in_step = FALSE, !.steps = @ + 1, !.time = @ + 1]
       /\ UNCHANGED << floor, graph, fire_probability, fire_started, running, grid,
                       smoke, hum, todo, in_tick, cur, pc, aborted >>

PoolSpec == PoolInit /\ [][PoolNext]_vars

\* ------------------------------------------------------------------ claims

C2_IdempotentArrival ==
    [][ \A h \in Humans :
          MoveTowardTarget(h) /\ hum[h].target_pos = hum[h].pos /\ ~aborted'
            => hum'[h].target_pos = NoPos /\ hum'[h].planned_action = NoAction ]_vars

\* C3  Once a Human's morale_boost flag is set, the flag stays set and the
\* Human's mobility is never PANIC, whatever its shock, health and panic
\* score are.
C3_BoostedNeverPanics ==
    /\ [](\A h \in Humans : hum[h].morale_boost => hum[h].mobility # "PANIC")
    /\ [][ \A h \in Humans : hum[h].morale_boost => hum'[h].morale_boost ]_vars

\* a boosted Human whose panic_rules has just run with a score at or above
\* the panic threshold
C3_Witness ==
    \E h \in Humans :
        /\ cur = h /\ pc = "learn"
        /\ hum[h].morale_boost
        /\ get_panic_score(hum, h) >= PANIC_THRESHOLD

\* C4  For a Human without morale boost, an evaluation of panic_rules leaves
\* the mobility PANIC when the recomputed panic score is at or above 0.8, and
\* NORMAL when the score is below 0.8, whether it was NORMAL or PANIC before.
C4_PanicTransitions ==
    [][ \A h \in Humans :
          PanicRules(h) /\ ~hum[h].morale_boost
            => /\ get_panic_score(hum', h) >= PANIC_THRESHOLD
                    => hum'[h].mobility = "PANIC"
               /\ get_panic_score(hum', h) < PANIC_THRESHOLD
                    => hum'[h].mobility = "NORMAL" ]_vars

\* a Human without morale boost that panic_rules has just left in PANIC
C4_Witness ==
    \E h \in Humans :
        /\ cur = h /\ pc = "learn"
        /\ ~hum[h].morale_boost
        /\ hum[h].mobility = "PANIC"
        /\ get_panic_score(hum, h) >= PANIC_THRESHOLD

NearFire(h) ==
    /\ hum[h].pos # NoPos
    /\ HasKind(get_cell_list_contents(grid,
                   get_neighborhood(floor, hum[h].pos, TRUE, TRUE, 1)), "Fire")

\* C6  No step raises a Human's health.  A tick's health_mobility_rules of a
\* Human with a Fire in its Moore neighbourhood leaves its health at least 0.2
\* lower or at 0, never negative (so it is exactly 0 after a bounded number
\* of such ticks), and the evaluation that leaves it at 0 performs die: the Human is
\* off the grid and the schedule and a DeadHuman lies where it stood.
C6_HealthUnderFire ==
    [][ \A h \in Humans :
          /\ hum'[h].health <= hum[h].health
          /\ HealthMobilityRules(h) /\ hum[h].scheduled /\ ~hum[h].escaped /\ NearFire(h)
               => /\ hum'[h].health >= MIN_HEALTH
                  /\ hum'[h].health <= Max(MIN_HEALTH,
                                           hum[h].health - HEALTH_MODIFIER_FIRE)
                  /\ hum'[h].health = MIN_HEALTH
                       => /\ hum'[h].pos = NoPos /\ ~hum'[h].scheduled
                          /\ \A c \in Cells(floor) :
                                \A i \in 1..Len(grid'[c]) : grid'[c][i] # HumanObj(h)
                          /\ HasKind(grid'[hum[h].pos], "DeadHuman") ]_vars

\* a Human that died beside a Fire: health 0, unscheduled, its DeadHuman on a
\* cell with a Fire in the neighbourhood
C6_Witness ==
    \E h \in Humans : \E c \in Cells(floor) :
        /\ hum[h].health = MIN_HEALTH /\ ~hum[h].scheduled /\ hum[h].pos = NoPos
        /\ \E i \in 1..Len(grid[c]) : grid[c][i] = DeadHumanObj(h, c)
        /\ HasKind(get_cell_list_contents(grid,
                       get_neighborhood(floor, c, TRUE, TRUE, 1)), "Fire")

\* the Human h is on no cell of the grid
OffGrid(G, h) ==
    \A c \in Cells(floor) : \A i \in 1..Len(G[c]) : G[c][i] # HumanObj(h)

C9_RandomTargetLoopEnds ==
    \A h \in Humans :
        /\ ~aborted /\ cur = h /\ pc \in {"random_unvisited", "random_any"}
        /\ NeedsTarget(hum, h)
        => \/ traversable_pos(hum, grid, h, pc = "random_any") = {}
           \/ RandomTargets(hum, grid, h, pc = "random_any") # {}

\* no Human in the schedule's list is alive: each is dead or has escaped
NoOneAlive ==
    \A h \in Humans :
        hum[h].scheduled => hum[h].health = MIN_HEALTH \/ hum[h].escaped

C11_SharedGraphUntouched ==
    [][ graph' = graph ]_vars

\* a Human's step stands at its call of move_toward_target, and the call
\* prunes a node from the copy (another Human blocks the way): model.graph
\* has the node before the call, and by the property after it
C11_Witness ==
    \E h \in Humans :
        /\ cur = h /\ pc = "move" /\ ~aborted
        /\ \E r \in pathing(floor, graph, hum, grid, h, visible_tiles(h)) :
              /\ ~r[3]
              /\ r[4] # UNION graph

\* C12  A Human's known_tiles only grows or has entries overwritten from one
\* state to the next, except in the step in which its mobility changes from
\* NORMAL to PANIC, where it is cleared; a Human that was in PANIC already
\* keeps the entries it has learned since the onset.
C12_KnownTilesKeptButOnOnset ==
    [][ \A h \in Humans :
          \/ DOMAIN hum[h].known_tiles \subseteq DOMAIN hum'[h].known_tiles
          \/ /\ hum[h].mobility = "NORMAL" /\ hum'[h].mobility = "PANIC"
             /\ hum'[h].known_tiles = NoTiles ]_vars

\* C13  Line rasterization symmetry: for all cells A and B of the bounded
\* grid, get_line(A, B) and get_line(B, A) have the same set of cells,
\* get_line(A, B) starts with A and ends with B, and get_line(B, A) is
\* get_line(A, B) read backwards.
C13_LineSymmetry ==
    call.op = "get_line" /\ call.done =>
        LET f == call.forth
            b == call.back
        IN  /\ SeqToSet(f) = SeqToSet(b)
            /\ Len(f) >= 1
            /\ f[1] = call.start /\ f[Len(f)] = call.end
            /\ Len(b) = Len(f)
            /\ \A i \in 1..Len(f) : b[i] = f[Len(f) + 1 - i]

\* both lines are computed for a steep line whose start lies beyond its end,
\* the case in which get_line rotates, swaps and reverses
C13_Witness ==
    /\ call.op = "get_line" /\ call.done
    /\ call.start = <<3, 5>> /\ call.end = <<1, 0>>
    /\ call.forth = << <<3, 5>>, <<3, 4>>, <<2, 3>>, <<2, 2>>, <<1, 1>>, <<1, 0>> >>

\* C14  Visibility monotonicity: for every agent position, vision radius and
\* grid, a Wall added to a cell strictly between the agent and a target cell
\* on get_line(agent, target) makes get_visible_tiles lose the target cell
\* and every cell of that line beyond the Wall, and the cells visible with
\* the Wall are among those visible without it.
C14_WallHidesTarget ==
    call.op = "get_visible_tiles" /\ call.step = 3 /\ call.change[1] = "wall" =>
        LET w == call.change[2]
            targets == SeqToSet(get_neighborhood(floor, call.pos, TRUE, TRUE,
                                                 call.vision))
        IN  /\ VisiblePositions(call.seen) \subseteq VisiblePositions(call.before)
            /\ \A t \in targets :
                  LET line == get_line(call.pos, t)
                  IN  \A i \in 2..(Len(line) - 1) :
                        line[i] = w =>
                          \A j \in i..Len(line) : line[j] \notin VisiblePositions(call.seen)

\* the Smoke-bearing cells among the first n cells of a line
SmokeCells(G, line, n) ==
    Cardinality({ i \in 1..n : HasKind(G[line[i]], "Smoke") })

\* what get_visible_tiles reports: for every visible cell, the sets of objects
\* reported on it
Reported(vt) == { << e[1], SeqToSet(e[2]) >> : e \in vt }

\* C15  Occlusion accumulation: an occupant of a cell reached by a ray that
\* passed through k Smoke-bearing cells is reported by get_visible_tiles if
\* and only if its visibility score is greater than k, whichever ray resolved
\* the cell (one answer per cell) and in whatever order the occupants lie in
\* the cell (the same answer after a cell's objects are reordered).  The
\* rule is read as generously as its words allow: a reported occupant has a
\* score above the Smoke-bearing cells before its cell on some ray, an
\* unreported one a score not above those up to and with its cell on some ray.
C15_OcclusionByCount ==
    call.op = "get_visible_tiles" /\ call.step \in {1, 3} =>
        LET vt == IF call.step = 1 THEN call.before ELSE call.seen
            rays == { get_line(call.pos, t) :
                      t \in SeqToSet(get_neighborhood(floor, call.pos, TRUE, TRUE,
                                                      call.vision)) }
            Through(tile) ==
                { <<line, i>> \in rays \X (1..(2 * MaxVision + 1)) :
                    i <= Len(line) /\ line[i] = tile }
        IN  /\ \A e1, e2 \in vt :
                  e1[1] = e2[1] => SeqToSet(e1[2]) = SeqToSet(e2[2])
            /\ call.step = 3 => Reported(call.seen) = Reported(call.before)
            /\ \A e \in vt : \A obj \in SeqToSet(grid[e[1]]) :
                  IF obj \in SeqToSet(e[2])
                    THEN \E r \in Through(e[1]) :
                           visibility(obj) > SmokeCells(grid, r[1], r[2] - 1)
                    ELSE \E r \in Through(e[1]) :
                           visibility(obj) <= SmokeCells(grid, r[1], r[2])

\* C16  The corridor: with one Human of speed 1 in a straight corridor whose
\* fire exit at x = 4 it knows, attempt_exit_plan is not called while
\* fire_started is false; once the fire has started and the Human believes
\* the alarm its planned target is the fire exit at x = 4; a Human that stood
\* at x = 0 when the fire started is at x = 4 after exactly 4 ticks (from
\* x = k, after exactly 4 - k ticks), and in that tick it is ESCAPED and off
\* the grid.
C16_Corridor ==
    LET exit == <<4, 0>>
        left == 4 - call.from
    IN  floor = Corridor =>
        /\ cur = 1 /\ pc \in {"random_unvisited", "collab"} => fire_started
        /\ cur = 1 /\ fire_started /\ hum[1].believes_alarm
              /\ pc \in {"random_unvisited", "collab", "target", "random_any", "move"}
              => /\ hum[1].target_agent = FloorObject(floor, exit)
                 /\ hum[1].target_pos = exit
        /\ ~in_tick /\ fire_started /\ hum[1].believes_alarm /\ call.from \in 0..3
              => IF call.ticks < left
                   THEN /\ hum[1].pos = <<call.from + call.ticks, 0>>
                        /\ get_status(hum, 1) = "ALIVE"
                        /\ HumanObj(1) \in SeqToSet(grid[hum[1].pos])
                   ELSE /\ call.ticks = left
                        /\ get_status(hum, 1) = "ESCAPED"
                        /\ HumanObj(1) \notin AllObjects(grid)

\* the Human stood at x = 0 when the fire started and has left after 4 ticks
C16_Witness ==
    /\ floor = Corridor
    /\ ~in_tick /\ fire_started /\ hum[1].believes_alarm
    /\ call.op = "scenario" /\ call.from = 0 /\ call.ticks = 4
    /\ get_status(hum, 1) = "ESCAPED"
    /\ HumanObj(1) \notin AllObjects(grid)

\* C17  The blocked path: when get_path finds no path from the Human to its
\* planned target, move_toward_target clears planned_target and planned_action
\* and leaves the Human on its cell; in its next step the Human moves with a
\* target again, and that target is a new one: it is the dropped target only
\* when get_random_target has drawn that cell anew.
C17_BlockedPath ==
    call.op = "scenario" /\ call.no_path =>
        /\ cur = 1 /\ pc = "escape"
              => /\ hum[1].target_pos = NoPos
                 /\ hum[1].target_agent = NoObj
                 /\ hum[1].planned_action = NoAction
                 /\ hum[1].pos = call.pos
        /\ cur = 1 /\ pc = "move"
              => /\ hum[1].target_pos # NoPos
                 /\ hum[1].target_pos = call.target => hum[1].target_agent = NoObj

\* C18  Morale support: when Human A (experience 10, NORMAL, collaborating,
\* MORALE_SUPPORT planned on B) stands next to a panicking Human B, the
\* move_toward_target of A's step performs the action on B: B's mobility
\* becomes NORMAL, B's morale_boost is set and A's morale_collaboration_count
\* grows by one (a boosted B does not panic again: C3).
C18_MoraleSupport ==
    [][ \A a, b \in Humans :
          /\ MoveTowardTarget(a)
          /\ hum[a].planned_action = MORALE_SUPPORT
          /\ hum[a].target_agent = HumanObj(b)
          /\ hum[a].experience = MAX_EXPERIENCE
          /\ hum[a].mobility = "NORMAL"
          /\ hum[a].collaborates
          /\ hum[b].mobility = "PANIC"
          /\ get_status(hum, b) = "ALIVE"
          /\ Max(Abs(hum[a].pos[1] - hum[b].pos[1]),
                 Abs(hum[a].pos[2] - hum[b].pos[2])) = 1
          => /\ hum'[b].mobility = "NORMAL"
             /\ hum'[b].morale_boost
             /\ hum'[a].morale_collaboration_count
                   = hum[a].morale_collaboration_count + 1 ]_vars

C20_OneFanOut ==
    [][ /\ \A s \in todo :
             LET c == <<s[2], s[3]>>
             IN  SmokeStep(s) /\ grid' # grid
                   => /\ smoke[c][s[4]].spread >= SPREAD_THRESHOLD
                      /\ smoke[c][s[4]].spread_rate # 0
                      /\ smoke'[c][s[4]].spread_rate = 0
        /\ \A c \in DOMAIN smoke : \A i \in 1..Len(smoke[c]) :
             smoke[c][i].spread_rate = 0
               => /\ i <= Len(smoke'[c])
                  /\ smoke'[c][i].spread_rate = 0 ]_vars

\* a Smoke that has fanned out into a free neighbour cell before is about to
\* step again
C20_Witness ==
    /\ in_tick /\ cur = 0 /\ ~aborted
    /\ \E s \in todo :
          /\ Kind(s) = "Smoke"
          /\ smoke[<<s[2], s[3]>>][s[4]].spread_rate = 0
          /\ \E c \in SeqToSet(get_neighborhood(floor, <<s[2], s[3]>>, FALSE, FALSE,
                                                SMOKE_RADIUS)) :
                /\ HasKind(grid[c], "Smoke")
                /\ \A i \in 1..Len(grid[c]) :
                      Kind(grid[c][i]) = "Smoke" \/ spreads_smoke(grid[c][i])

\* C21  The parallel scheduler: steps and time are advanced once per call of
\* step, by one, and only when every agent step dispatched in the call has
\* returned; an agent step that is running was dispatched in the call under
\* way, so the agent steps of two ticks never overlap.
C21_TickAfterAllSteps ==
    /\ [](call.op = "pool" =>
            /\ \A t \in call.at_work : call.in_step /\ t[2] = call.steps
            /\ ~call.in_step => call.queue = {} /\ call.at_work = {}
            /\ call.time = call.steps)
    /\ [][ call.op = "pool" /\ (call'.steps # call.steps \/ call'.time # call.time)
            => /\ call'.steps = call.steps + 1
               /\ call'.time = call.time + 1
               /\ call.in_step /\ ~call'.in_step
               /\ call.queue = {} /\ call.at_work = {} ]_vars

\* the second call of step is under way with two agent steps running and one
\* waiting
C21_Witness ==
    /\ call.op = "pool" /\ call.in_step /\ call.steps = 1
    /\ Cardinality(call.at_work) = 2
    /\ Cardinality(call.queue) = 1

\* C22  Physical support: when the move_toward_target of a Human with
\* PHYSICAL_SUPPORT planned on an incapacitated, living Human that nobody
\* carries ends with the Human on the cell of its target, or is called with
\* the Human on that cell, the Human carries the target afterwards: its
\* carrying points at the target, the target's carried is true and
\* physical_collaboration_count has grown by one.
C22_PhysicalSupport ==
    [][ \A a, b \in Humans :
          /\ MoveTowardTarget(a)
          /\ hum[a].planned_action = PHYSICAL_SUPPORT
          /\ hum[a].target_agent = HumanObj(b)
          /\ hum[b].mobility = "INCAPACITATED"
          /\ get_status(hum, b) = "ALIVE"
          /\ ~hum[b].carried
          /\ hum[a].carrying = 0
          /\ hum'[a].pos = hum[b].pos
          => /\ hum'[a].carrying = b
             /\ hum'[b].carried
             /\ hum'[a].physical_collaboration_count
                   = hum[a].physical_collaboration_count + 1 ]_vars

\* ------------------------------- move_toward_target called with a plan

\* move_toward_target called on its own on floor plan 1: Human 1 holds a
\* planned action and a target (Human 2 and its cell, or a cell alone);
\* Human 2 is in any mobility, carried or not, alive or (when it was pushed
\* and has not been stepped since) with no health left
PlanInit ==
    /\ floor = 1
    /\ graph = GraphEdges(floor)
    /\ fire_probability = 0
    /\ fire_started = TRUE
    /\ running = TRUE
    /\ \E pos1, pos2 \in { c \in Cells(floor) : IsOpen(floor, c) } :
         \E action \in {PHYSICAL_SUPPORT, MORALE_SUPPORT, RETREAT} :
         \E with_agent, carried \in BOOLEAN :
         \E mobility \in {"NORMAL", "PANIC", "INCAPACITATED"} :
         \E health \in {MIN_HEALTH, MAX_HEALTH \div 2} :
            LET persona == <<200, 10, 4, 5, 5>>
                lying == IF mobility = "INCAPACITATED"
                           THEN incapacitate([ h \in Humans |->
                                     NewHuman(pos2, persona, FALSE, TRUE) ], 2)[2]
                           ELSE [ NewHuman(pos2, persona, FALSE, TRUE)
                                    EXCEPT !.mobility = mobility ]
                H == [ h \in Humans |->
                         IF h = 1 THEN NewHuman(pos1, persona, TRUE, TRUE)
                         ELSE [ lying EXCEPT !.carried = carried,
                                             !.health = health ] ]
            IN  /\ mobility = "INCAPACITATED" => health > MIN_HEALTH
                /\ pos1 = pos2 => mobility = "INCAPACITATED"
                /\ hum = [ SetTarget(H, 1, IF with_agent THEN HumanObj(2) ELSE NoObj,
                                     pos2)
                             EXCEPT ![1].planned_action = action ]
                /\ grid = PlaceHumans(LoadedGrid(floor), H, 1)
                /\ call = [ op |-> "move_toward_target", done |-> FALSE,
                            checked |-> << >> ]
    /\ smoke = [ c \in Cells(floor) |-> <<>> ]
    /\ todo = {}
    /\ in_tick = FALSE
    /\ cur = 0
    /\ pc = "done"
    /\ aborted = FALSE

\* the call; call.checked notes the Humans as update_target and update_action
\* leave them, before the loop
PlannedMove ==
    /\ call.op = "move_toward_target" /\ ~call.done
    /\ \E r \in move_toward_target(floor, graph, hum, grid, 1, visible_tiles(1)) :
          /\ hum' = r[1]
          /\ grid' = r[2]
          /\ aborted' = r[3]
    /\ LET H1 == update_target(hum, 1)
       IN  call' = [call EXCEPT
                      !.done = TRUE,
                      !.checked = IF ~Truthy(H1[1].planned_action) THEN H1
                                  ELSE IF update_action_raises(H1, 1) THEN << >>
                                  ELSE update_action(H1, 1)]
    /\ UNCHANGED << floor, graph, fire_probability, fire_started, running, smoke,
                    todo, in_tick, cur, pc >>

PlanSpec == PlanInit /\ [][PlannedMove]_vars

C24_Retreat ==
    [][ \A h \in Humans :
          /\ MoveTowardTarget(h)
          /\ hum[h].planned_action # RETREAT
          /\ hum'[h].planned_action = RETREAT
          => LET before == update_target(hum, h)[h].target_pos
                 mirrors == { get_retreat_location(hum, h, n) : n \in Cells(floor) }
                 target == hum'[h].target_pos
             IN  /\ hum'[h].target_agent = NoObj
                 /\ \/ /\ target \in mirrors
                       /\ ~out_of_bounds(floor, target)
                       /\ ~HasKind(grid[target], "Smoke")
                       /\ ~HasKind(grid[target], "Fire")
                    \/ target # before ]_vars

\* C25  A panicking Human keeps its plan: when the step of a Human in PANIC
\* that holds a planned position passes from planning to movement without
\* fainting, it goes on to move_toward_target with the planned_target and the
\* planned_action it held, and no random target is drawn.
C25_PanicKeepsPlan ==
    [][ \A h \in Humans :
          /\ ChooseTarget(h)
          /\ hum[h].mobility = "PANIC"
          /\ hum[h].target_pos # NoPos
          /\ hum'[h].mobility = "PANIC"
          => /\ pc' = "move"
             /\ hum'[h].target_agent = hum[h].target_agent
             /\ hum'[h].target_pos = hum[h].target_pos
             /\ hum'[h].planned_action = hum[h].planned_action ]_vars

\* a Human in PANIC is about to move toward the fire exit it planned
C25_Witness ==
    \E h \in Humans :
        /\ cur = h /\ pc = "move" /\ ~aborted
        /\ hum[h].mobility = "PANIC"
        /\ Kind(hum[h].target_agent) = "FireExit"

\* C25 as stated: the step of a Human in PANIC that reaches the movement phase
\* leaves it with a random target (no target agent) and no planned action.
C25_PanicOverride ==
    [][ \A h \in Humans :
          /\ ChooseTarget(h)
          /\ hum[h].mobility = "PANIC"
          /\ pc' = "move"
          => /\ hum'[h].target_agent = NoObj
             /\ hum'[h].planned_action = NoAction ]_vars

\* C26  The planning calls of step: attempt_exit_plan (its get_random_target
\* included) runs only in a step in which the fire has started and the Human
\* believes the alarm; check_for_collaboration changes something only in such
\* a step of a Human that is NORMAL and collaborates; and the planning of a
\* Human that carries someone leaves every Human as it was: no new planned
\* action, nobody informed of an exit.
C26_PlanningGuards ==
    [][ \A h \in Humans :
          /\ ExitPlan(h) /\ (hum' # hum \/ pc' # "target")
                => fire_started /\ hum[h].believes_alarm
          /\ GetRandomTarget(h) /\ pc = "random_unvisited"
                => fire_started /\ hum[h].believes_alarm
          /\ Collaborate(h)
                => /\ fire_started /\ hum[h].believes_alarm
                   /\ hum' # hum => /\ hum[h].mobility = "NORMAL"
                                    /\ hum[h].collaborates
                                    /\ hum[h].carrying = 0
                   /\ hum[h].carrying # 0 => hum' = hum ]_vars

\* a collaborating Human that carries another one has passed
\* check_for_collaboration within sight of a fire exit
C26_Witness ==
    \E h \in Humans :
        /\ cur = h /\ pc = "target" /\ ~aborted
        /\ fire_started /\ hum[h].believes_alarm
        /\ hum[h].mobility = "NORMAL" /\ hum[h].collaborates
        /\ hum[h].carrying # 0
        /\ CollaborationCount(hum, h) < MaxCollab
        /\ \E e \in visible_tiles(h) : HasKind(e[2], "FireExit")

\* C27  The nearest exit: when attempt_exit_plan runs in the step of a Human
\* that knows a fire exit, the planned target afterwards is a fire exit of
\* known_tiles, with its position, and no known fire exit has a shorter
\* get_line from the cell of the Human; and in a step of a Human whose planned
\* target agent is a fire exit attempt_exit_plan does not run: the planning
\* leaves the Human as it was.
C27_NearestExit ==
    [][ \A h \in Humans :
          ExitPlan(h) /\ fire_started /\ hum[h].believes_alarm =>
             LET exits == KnownExits(hum, h)
                 Length(pos) == Len(get_line(hum[h].pos, pos))
                 target == hum'[h].target_pos
             IN  /\ /\ Kind(hum[h].target_agent) # "FireExit"
                    /\ ~Truthy(hum[h].planned_action)
                    /\ exits # {}
                    => /\ target \in exits
                       /\ hum'[h].target_agent = FloorObject(floor, target)
                       /\ Kind(hum'[h].target_agent) = "FireExit"
                       /\ \A q \in exits : Length(target) <= Length(q)
                 /\ Kind(hum[h].target_agent) = "FireExit"
                    => hum' = hum /\ pc' = "collab" ]_vars

\* a Human between two fire exits it knows has planned the nearer one, and
\* has passed the planning of a later step with it
C27_Witness ==
    /\ call.op = "scenario" /\ call.ticks > 0
    /\ cur = 1 /\ pc = "collab" /\ ~aborted
    /\ Cardinality(KnownExits(hum, 1)) > 1
    /\ Kind(hum[1].target_agent) = "FireExit"
    /\ call.target = hum[1].target_pos
    /\ \E q \in KnownExits(hum, 1) :
          Len(get_line(hum[1].pos, q)) > Len(get_line(hum[1].pos, hum[1].target_pos))

\* C28  The door: when attempt_exit_plan runs in the step of a Human that
\* knows no fire exit and leaves a Door as planned target, that Door is on a
\* visible cell that is not among the visited_tiles of the Human.
C28_UnvisitedDoor ==
    [][ \A h \in Humans :
          /\ ExitPlan(h)
          /\ fire_started /\ hum[h].believes_alarm
          /\ Kind(hum[h].target_agent) # "FireExit"
          /\ ~Truthy(hum[h].planned_action)
          /\ KnownExits(hum, h) = {}
          /\ Kind(hum'[h].target_agent) = "Door"
          => /\ hum'[h].target_pos \in VisiblePositions(visible_tiles(h))
             /\ hum'[h].target_pos \notin hum[h].visited_tiles ]_vars

\* C29  INCAPACITATED is absorbing: in every step of a run from a state in
\* which a Human is INCAPACITATED, the Human is INCAPACITATED afterwards,
\* unless the step is the perform_action of another Human that had planned
\* MORALE_SUPPORT on it, which leaves it NORMAL; and a step of its own leaves
\* it on its cell, unless it dies in that step (it is off the grid, with no
\* health left, and nothing else of its own step follows).
C29_Incapacitated ==
    [][ \A h \in Humans :
          hum[h].mobility = "INCAPACITATED" =>
             /\ hum'[h].mobility # "INCAPACITATED"
                   => /\ hum'[h].mobility = "NORMAL"
                      /\ \E a \in Humans \ {h} :
                            /\ PerformAction(a)
                            /\ hum[a].planned_action = MORALE_SUPPORT
                            /\ hum[a].target_agent = HumanObj(h)
             /\ cur # h /\ cur' # h
             /\ HealthMobilityRules(h) /\ hum'[h].pos # hum[h].pos
                   => /\ hum'[h].pos = NoPos
                      /\ hum'[h].health = MIN_HEALTH
                      /\ ~hum'[h].scheduled ]_vars

\* a Human that has been INCAPACITATED since an earlier tick, alive and on the
\* grid beside a Fire, is about to be stepped
C29_Witness ==
    \E h \in Humans :
        /\ in_tick /\ cur = 0 /\ ~aborted
        /\ HumanObj(h) \in todo
        /\ hum[h].mobility = "INCAPACITATED"
        /\ hum[h].pos # NoPos
        /\ get_status(hum, h) = "ALIVE"
        /\ NearFire(h)

\* C30  The end of a move: after a move_toward_target that has moved the
\* Human, a push step included, the cell of the Human holds nothing that is
\* not traversable besides the Human itself: no Wall, Furniture or Fire and no
\* other Human that is not INCAPACITATED.
C30_MoveEndsOnFreeCell ==
    [][ \A h \in Humans :
          /\ MoveTowardTarget(h)
          /\ hum'[h].pos # hum[h].pos
          /\ hum'[h].pos # NoPos
          => LET contents == grid'[hum'[h].pos]
             IN  \A i \in 1..Len(contents) :
                    \/ contents[i] = HumanObj(h)
                    \/ traversable(hum', contents[i]) ]_vars

C32_FireSeedsSmoke ==
    [][ \A f \in todo : FireStep(f) =>
          \A c \in SeqToSet(get_neighborhood(floor, <<f[2], f[3]>>, FALSE, FALSE,
                                             SMOKE_RADIUS)) :
             CountKind(grid'[c], "Smoke") > CountKind(grid[c], "Smoke")
             <=> /\ \A i \in 1..Len(grid[c]) : spreads_smoke(grid[c][i])
                 /\ ~HasKind(grid[c], "Fire")
                 /\ ~HasKind(grid[c], "Smoke") ]_vars

\* C33  A Human becomes escaped only in a step taken after the fire has
\* started, on a fire exit cell where it stands after its movement, and while
\* it believes the alarm: a Human that does not believe the alarm is never
\* marked escaped.
C33_EscapeNeedsBelief ==
    [][ \A h \in Humans :
          ~hum[h].escaped /\ hum'[h].escaped
            => /\ fire_started
               /\ hum[h].pos \in fire_exits(floor)
               /\ hum[h].believes_alarm ]_vars

C35_OneFireOneSmoke ==
    \A c \in Cells(floor) :
        /\ CountKind(grid[c], "Fire") <= 1
        /\ CountKind(grid[c], "Smoke") <= 1
        /\ HasKind(grid[c], "Wall")
             => ~HasKind(grid[c], "Fire") /\ ~HasKind(grid[c], "Smoke")

\* a burning cell under smoke, beside a Wall and beside a second Fire whose
\* step has looked at it, with smoke old enough to have spread
C35_Witness ==
    \E c, w, d \in Cells(floor) :
        /\ HasKind(grid[c], "Fire") /\ HasKind(grid[c], "Smoke")
        /\ HasKind(grid[d], "Fire") /\ d # c
        /\ Abs(c[1] - d[1]) + Abs(c[2] - d[2]) = 1
        /\ HasKind(grid[w], "Wall")
        /\ Abs(c[1] - w[1]) + Abs(c[2] - w[2]) = 1
        /\ \E i \in 1..Len(smoke[c]) : smoke[c][i].spread >= SPREAD_THRESHOLD
        /\ ~in_tick

\* C36  Population conservation: at the end of every tick the Humans in the
\* schedule with status ALIVE, those with status ESCAPED and the DeadHuman
\* markers on the grid add up to the number of Humans spawned; and the status
\* of a Human never goes from DEAD or ESCAPED back to ALIVE.
C36_PopulationConserved ==
    /\ [](~in_tick /\ ~aborted
            => count_human_status(hum, "ALIVE") + count_human_status(hum, "ESCAPED")
                 + Cardinality({ o \in AllObjects(grid) : Kind(o) = "DeadHuman" })
               = NumHumans)
    /\ [][ \A h \in Humans :
            get_status(hum, h) \in {"DEAD", "ESCAPED"} => get_status(hum', h) # "ALIVE" ]_vars

\* the end of a tick after which one Human has escaped, still in the
\* schedule, and another has died and left its DeadHuman on the grid
C36_Witness ==
    \E h, k \in Humans :
        /\ ~in_tick /\ ~aborted /\ fire_started
        /\ hum[h].scheduled /\ get_status(hum, h) = "ESCAPED"
        /\ ~hum[k].scheduled /\ get_status(hum, k) = "DEAD"
        /\ \E o \in AllObjects(grid) : Kind(o) = "DeadHuman" /\ o[4] = k

\* C37  A Human with a Fire in its Moore neighbourhood of radius 1, its own
\* cell included, at the start of its step does not walk in that step:
\* health_mobility_rules lets it die or makes it INCAPACITATED where it
\* stands, and the step returns before perception, planning and movement.
C37_FireStopsTheStep ==
    [][ \A h \in Humans :
          ( /\ HealthMobilityRules(h)
            /\ hum[h].scheduled /\ ~hum[h].escaped /\ NearFire(h) )
            => /\ cur' = 0
               /\ \/ /\ hum'[h].health = MIN_HEALTH
                     /\ hum'[h].pos = NoPos /\ ~hum'[h].scheduled
                  \/ /\ hum'[h].health > MIN_HEALTH
                     /\ hum'[h].mobility = "INCAPACITATED"
                     /\ hum'[h].speed = MIN_SPEED
                     /\ hum'[h].pos = hum[h].pos
                     /\ ~OffGrid(grid', h) ]_vars

\* a Human that its step of this tick has made INCAPACITATED beside a Fire:
\* it has lost the health of one contact with fire and no more
C37_Witness ==
    \E h \in Humans :
        /\ in_tick /\ cur = 0 /\ ~aborted /\ HumanObj(h) \notin todo
        /\ NearFire(h)
        /\ hum[h].mobility = "INCAPACITATED" /\ hum[h].speed = MIN_SPEED
        /\ hum[h].health = PersonaOf(h)[1] - HEALTH_MODIFIER_FIRE

\* C38  fire_started never goes back to false; start_fire acts only while it
\* is false, and then places the one Fire of an empty grid on a Furniture cell
\* and sets fire_started; every other Fire is placed by the step of a Fire on
\* a cell of its von Neumann neighbourhood that holds a flammable occupant.
C38_FireOrigin ==
    [][ /\ fire_started => fire_started'
        /\ ~fire_started /\ fire_started'
             => EndOfTick /\ \E c \in Cells(floor) : HasKind(grid'[c], "Fire")
        /\ \A c \in Cells(floor) :
              CountKind(grid'[c], "Fire") > CountKind(grid[c], "Fire")
                => \/ /\ EndOfTick /\ ~fire_started /\ fire_started'
                      /\ HasKind(grid[c], "Furniture")
                      /\ \A d \in Cells(floor) :
                            /\ ~HasKind(grid[d], "Fire")
                            /\ d # c => ~HasKind(grid'[d], "Fire")
                   \/ /\ fire_started
                      /\ \E f \in todo :
                            /\ FireStep(f)
                            /\ c \in SeqToSet(get_neighborhood(floor, <<f[2], f[3]>>,
                                                               FALSE, FALSE, SMOKE_RADIUS))
                      /\ \E i \in 1..Len(grid[c]) : flammable(grid[c][i]) ]_vars

\* a fire that has spread: one Fire on a cell with Furniture and another on a
\* cell without, where a Human or a DeadHuman caught fire
C38_Witness ==
    \E c, d \in Cells(floor) :
        /\ fire_started
        /\ HasKind(grid[c], "Fire") /\ HasKind(grid[c], "Furniture")
        /\ HasKind(grid[d], "Fire") /\ ~HasKind(grid[d], "Furniture")

\* C39  No cell that holds a Wall is among the tiles get_visible_tiles
\* returns, and the Human's own cell always is; so no Human ever has a Wall
\* cell among its known_tiles.
C39_WallsUnseen ==
    \A h \in Humans :
        /\ \A c \in DOMAIN hum[h].known_tiles : ~HasKind(grid[c], "Wall")
        /\ cur = h /\ pc \in {"panic", "learn"}
             => LET seen == VisiblePositions(visible_tiles(h))
                IN  /\ hum[h].pos \in seen
                    /\ \A c \in seen : ~HasKind(grid[c], "Wall")

\* a Human that has just learned what it sees, its own cell included, with a
\* Wall on a cell next to it
C39_Witness ==
    \E h \in Humans : \E w \in Cells(floor) :
        /\ cur = h /\ pc = "plan" /\ ~aborted
        /\ hum[h].pos \in DOMAIN hum[h].known_tiles
        /\ Cardinality(DOMAIN hum[h].known_tiles) >= 3
        /\ HasKind(grid[w], "Wall")
        /\ Max(Abs(w[1] - hum[h].pos[1]), Abs(w[2] - hum[h].pos[2])) = 1

\* C40  For all cells A and B of the bounded grid, get_line(A, B) has exactly
\* max(|dx|, |dy|) + 1 cells, holds no cell twice, and any two consecutive
\* cells of it differ by at most 1 in each coordinate.
C40_LineShape ==
    call.op = "get_line" /\ call.done =>
        LET f == call.forth
            dx == Abs(call.end[1] - call.start[1])
            dy == Abs(call.end[2] - call.start[2])
        IN  /\ Len(f) = Max(dx, dy) + 1
            /\ \A i, j \in 1..Len(f) : i # j => f[i] # f[j]
            /\ \A i \in 1..(Len(f) - 1) :
                  /\ Abs(f[i + 1][1] - f[i][1]) <= 1
                  /\ Abs(f[i + 1][2] - f[i][2]) <= 1

\* a steep line of seven cells has been computed, from the far corner down to
\* a cell two columns away
C40_Witness ==
    /\ call.op = "get_line" /\ call.done
    /\ call.start = <<2, 6>> /\ call.end = <<0, 0>>
    /\ Len(call.forth) = 7
    /\ call.forth[1] = <<2, 6>> /\ call.forth[7] = <<0, 0>>


====
